---- MODULE Spec2Model ----
(***************************************************************************)
(* Signaling and session-broker core of calling-app-backend.               *)
(*                                                                         *)
(* The room engine (roomHandler) and the remote-control engine             *)
(* (remoteDesktopHandler) are modelled as handlers over one shared state.  *)
(* Every handler is an operator from a state record to a state record,     *)
(* written statement by statement after the JavaScript; an action applies  *)
(* one handler to the current state.  A handler is a composition of its    *)
(* statements: each statement is an operator that takes the state the      *)
(* statements before it left.  Handlers that await the transport           *)
(* (socket.join, socket.leave) are split at the await: the part before it  *)
(* runs when the event is dispatched, the continuation is a task that      *)
(* resumes later, and any other handler may run in between.  The events a  *)
(* handler emits are the `out` field of the state it returns: they leave   *)
(* the server and are no part of its state.                                *)
(***************************************************************************)
EXTENDS Naturals, Sequences, FiniteSets

VARIABLES
  live,                     \* io.sockets.sockets: ids of the connected sockets
  networkId,                \* getSocketNetworkId(socket), fixed at the handshake
  data,                     \* socket.data of every socket
  adapter,                  \* io.sockets.adapter.rooms: roomId -> set of socket ids
  rooms,                    \* roomHandler's rooms: roomId -> room object (its heap id)
  heap,                     \* the room objects, by heap id
  tasks,                    \* continuations waiting behind an await
  hosts,                    \* hostId -> [socketId, activeSessionId, networkId]
  sessions,                 \* sessionId -> [hostId, hostSocketId, controllerSocketId]
  pendingRequests,          \* requestId -> pending remote request
  pendingHostSetupRequests, \* requestId -> pending host-setup request
  hostSetupAssignments,     \* hostId -> [targetSocketId, roomId]
  hostClaims                \* hostId -> [socketId, roomId]

vars == <<live, networkId, data, adapter, rooms, heap, tasks, hosts, sessions,
          pendingRequests, pendingHostSetupRequests, hostSetupAssignments,
          hostClaims>>

----------------------------------------------------------------------------
(* Inputs and bounds *)

\* Socket ids.  A socket id is never reused after its disconnect.
Conns == {"c1", "c2", "c3"}

\* Room ids a client may name: two UUID-shaped ones and one that is not.
RoomIds == {"R1", "R2"}
NonUuidRoomIds == {"lobby"}

\* Peer ids a client may announce ("" is a missing peerId).
PeerIds == {"p1", "p2"}

\* Host ids an agent may register.
HostIds == {"host-p1", "host-p2"}

\* Network identities: a public address and a private one.
NetworkIds == {"203.0.113.7", "10.0.0.5"}

\* At most this many create-room / joined-room handlers are suspended at their
\* await at once.
MaxTasks == 1

\* Pools of fresh UUIDs for sessions and pending requests.
MaxSessions == 2
MaxRequests == 2

SessionIds == 1..MaxSessions
RequestIds == 1..MaxRequests

\* process.env.ROOM_AUTO_CREATE_ON_JOIN is unset: auto-create is on.
autoCreateOnJoin == TRUE

\* process.env.ALLOW_SAME_MACHINE_REMOTE is unset.
allowSameMachineRemote == FALSE

----------------------------------------------------------------------------
(* Maps: a JavaScript object or Map is a function on the keys it holds *)

EmptyMap == [k \in {} |-> ""]

Put(f, k, v) == [x \in (DOMAIN f) \cup {k} |-> IF x = k THEN v ELSE f[x]]

Del(f, k) == [x \in (DOMAIN f) \ {k} |-> f[x]]

\* f[k], or "" (undefined) when f has no key k
Get(f, k) == IF k \in DOMAIN f THEN f[k] ELSE ""

SeqToSet(q) == {q[i] : i \in 1..Len(q)}

\* [...new Set(q)]: the first occurrence of every element, in order
RECURSIVE Dedup(_)
Dedup(q) ==
  IF q = <<>> THEN <<>>
  ELSE LET front == Dedup(SubSeq(q, 1, Len(q) - 1))
           last == q[Len(q)]
       IN IF last \in SeqToSet(front) THEN front ELSE Append(front, last)

\* q.filter(x => x # v)
Without(q, v) == SelectSeq(q, LAMBDA x : x # v)

----------------------------------------------------------------------------
(* The state record the handlers work on *)

St ==
  [live |-> live, data |-> data, adapter |-> adapter, rooms |-> rooms,
   heap |-> heap, tasks |-> tasks, hosts |-> hosts, sessions |-> sessions,
   pendingRequests |-> pendingRequests,
   pendingHostSetupRequests |-> pendingHostSetupRequests,
   hostSetupAssignments |-> hostSetupAssignments,
   hostClaims |-> hostClaims, out |-> <<>>]

\* socket.data of a socket that has just connected
FreshData ==
  [roomId |-> "", peerId |-> "", remoteHostId |-> "",
   controllerSessionId |-> 0, hostSessionId |-> 0,
   pendingRemoteRequestId |-> 0, pendingHostSetupRequestId |-> 0,
   incomingHostSetupRequestId |-> 0]

\* An emit reaches the connected sockets among its targets; `a` and `b` carry
\* the payload fields the claims read.
Msg(to, ev, a, b) == [to |-> to, ev |-> ev, a |-> a, b |-> b]

Emit(s, to, ev, a, b) ==
  IF to \cap s.live = {} THEN s
  ELSE [s EXCEPT !.out = Append(@, Msg(to \cap s.live, ev, a, b))]

\* socket.to(roomId).emit(...): every socket joined to roomId but the caller
EmitToRoom(s, c, roomId, ev, a, b) ==
  Emit(s, s.adapter[roomId] \ {c}, ev, a, b)

\* Room objects no registry entry and no waiting continuation refers to are
\* garbage.
Reachable(s) ==
  ({s.rooms[r] : r \in DOMAIN s.rooms} \cup {t.room : t \in s.tasks}) \ {0}

\* Room ids in a fixed order; the order a fresh UUID is drawn in.
RoomOrder == <<"R1", "R2">>

\* Object identity carries no meaning beyond equality: the object registered
\* under the i-th room id is numbered i, the objects only a suspended handler
\* still holds are numbered after them.
Renumbered(s, o) ==
  IF \E r \in DOMAIN s.rooms : s.rooms[r] = o
  THEN CHOOSE i \in 1..Len(RoomOrder) :
         RoomOrder[i] \in DOMAIN s.rooms /\ s.rooms[RoomOrder[i]] = o
  ELSE Len(RoomOrder) + 1
         + Cardinality({x \in Reachable(s) :
                          x < o /\ ~\E r \in DOMAIN s.rooms : s.rooms[r] = x})

\* The end of a handler step: unreachable room objects and the socket.data of
\* sockets that are gone (and that no suspended handler belongs to) are
\* garbage-collected.
Collect(s) ==
  LET kept == (DOMAIN s.heap) \cap Reachable(s)
  IN [s EXCEPT
        !.heap = [n \in {Renumbered(s, o) : o \in kept} |->
                    s.heap[CHOOSE o \in kept : Renumbered(s, o) = n]],
        !.rooms = [r \in DOMAIN s.rooms |-> Renumbered(s, s.rooms[r])],
        !.tasks = {[t EXCEPT !.room = IF @ = 0 THEN 0 ELSE Renumbered(s, @)] :
                     t \in s.tasks},
        !.data = [c \in DOMAIN s.data |->
                    IF c \in s.live \/ \E t \in s.tasks : t.conn = c
                    THEN s.data[c] ELSE FreshData]]

\* The step that takes the state to s0, the state a handler leaves.
Commit(s0) ==
  \E s \in {Collect(s0)} :
     /\ live' = s.live
     /\ data' = s.data
     /\ adapter' = s.adapter
     /\ rooms' = s.rooms
     /\ heap' = s.heap
     /\ tasks' = s.tasks
     /\ hosts' = s.hosts
     /\ sessions' = s.sessions
     /\ pendingRequests' = s.pendingRequests
     /\ pendingHostSetupRequests' = s.pendingHostSetupRequests
     /\ hostSetupAssignments' = s.hostSetupAssignments
     /\ hostClaims' = s.hostClaims
     /\ UNCHANGED networkId

----------------------------------------------------------------------------
(* Room engine *)

isUuidLike(value) == value \in RoomIds

createRoomState == [participants |-> <<>>, peerToSocket |-> EmptyMap,
                    socketToPeer |-> EmptyMap]

isSocketActive(s, socketId) == socketId # "" /\ socketId \in s.live

\* The heap id of a new room object: the least id no object holds.
NewRoomObject(s) ==
  CHOOSE n \in 1..(Cardinality(DOMAIN s.heap) + 1) :
    /\ n \notin DOMAIN s.heap
    /\ \A m \in 1..(n - 1) : m \in DOMAIN s.heap

\* rooms[roomId] = createRoomState()
AllocRoom(s, roomId) ==
  [s EXCEPT !.rooms = Put(@, roomId, NewRoomObject(s)),
            !.heap = Put(@, NewRoomObject(s), createRoomState)]

\* if (!rooms[roomId]) rooms[roomId] = createRoomState()
EnsureRoom(s, roomId) ==
  IF roomId \notin DOMAIN s.rooms THEN AllocRoom(s, roomId) ELSE s

\* The pruning pass on one room object.
PrunedRoom(s, room) ==
  LET p2s == [p \in {q \in DOMAIN room.peerToSocket :
                       /\ isSocketActive(s, room.peerToSocket[q])
                       /\ Get(room.socketToPeer, room.peerToSocket[q]) = q}
                |-> room.peerToSocket[p]]
      s2p == [c \in {d \in DOMAIN room.socketToPeer :
                       /\ isSocketActive(s, d)
                       /\ Get(p2s, room.socketToPeer[d]) = d}
                |-> room.socketToPeer[c]]
  IN [participants |->
        SelectSeq(Dedup(room.participants),
                  LAMBDA p : Get(p2s, p) # "" /\ isSocketActive(s, Get(p2s, p))),
      peerToSocket |-> p2s,
      socketToPeer |-> s2p]

\* Faulty variant of pruneRoomState, as an earlier revision had it: the room is
\* deleted as soon as its participants list is empty, whoever is still joined
\* to it.
pruneRoomStateByParticipants(s, roomId) ==
  IF roomId \notin DOMAIN s.rooms THEN s
  ELSE LET o == s.rooms[roomId]
           room == PrunedRoom(s, s.heap[o])
       IN IF Len(room.participants) = 0
          THEN [s EXCEPT !.heap[o] = room, !.rooms = Del(@, roomId)]
          ELSE [s EXCEPT !.heap[o] = room]

pruneRoomState(s, roomId) ==
  IF roomId \notin DOMAIN s.rooms THEN s
  ELSE LET o == s.rooms[roomId]
           room == PrunedRoom(s, s.heap[o])
           hasSocketsInRoom == s.adapter[roomId] # {}
       IN IF Len(room.participants) = 0 /\ ~hasSocketsInRoom
          THEN [s EXCEPT !.heap[o] = room, !.rooms = Del(@, roomId)]
          ELSE [s EXCEPT !.heap[o] = room]

\* Called by socket c; socketId is the socket whose mapping is dropped.
removePeerFromRoom(s, c, roomId, peerId, socketId) ==
  IF roomId \notin DOMAIN s.rooms \/ peerId = "" THEN s
  ELSE EmitToRoom(
         [s EXCEPT !.heap[s.rooms[roomId]] =
            [participants |-> Without(@.participants, peerId),
             peerToSocket |-> Del(@.peerToSocket, peerId),
             socketToPeer |-> Del(@.socketToPeer, socketId)]],
         c, roomId, "user-left", peerId, roomId)

\* socket.leave(roomId) of socket c
SocketLeave(s, c, roomId) == [s EXCEPT !.adapter[roomId] = @ \ {c}]

\* socket.join(roomId): a no-op once the socket has disconnected
SocketJoin(s, c, roomId) ==
  IF c \in s.live THEN [s EXCEPT !.adapter[roomId] = @ \cup {c}] ELSE s

Task(kind, c, roomId, peerId, room) ==
  [kind |-> kind, conn |-> c, roomId |-> roomId, peerId |-> peerId, room |-> room]

Defer(s, t) == [s EXCEPT !.tasks = @ \cup {t}]

\* delete socket.data.roomId; delete socket.data.peerId
ForgetIdentity(s, c) == [s EXCEPT !.data[c].roomId = "", !.data[c].peerId = ""]

\* leaveCurrentRoom up to its return; the pruning pass waits behind the leave.
leaveCurrentRoom(s, c) ==
  LET roomId == s.data[c].roomId
      peerId == s.data[c].peerId
  IN IF roomId = "" THEN s
     ELSE ForgetIdentity(
            Defer(SocketLeave(IF peerId # ""
                              THEN removePeerFromRoom(s, c, roomId, peerId, c)
                              ELSE s,
                              c, roomId),
                  Task("prune", "", roomId, "", 0)),
            c)

\* Faulty variant of createRoomStart: the room is registered but the creator is
\* not joined to the transport room.
createRoomStartUnjoined(s, c, roomId) ==
  Defer(EnsureRoom(s, roomId), Task("create", c, roomId, "", 0))

\* createRoom up to `await socket.join(roomId)`; roomId is the minted UUID.
createRoomStart(s, c, roomId) ==
  Defer(SocketJoin(EnsureRoom(s, roomId), c, roomId),
        Task("create", c, roomId, "", 0))

\* createRoom after the await
createRoomResume(s, t) ==
  Emit([s EXCEPT !.data[t.conn].roomId = t.roomId],
       {t.conn}, "room-created", t.roomId, "")

\* joinedRoom from `if (!peerId) return` to `await socket.join(...)`: the
\* continuation keeps the room object looked up before the await.
joinedRoomAwait(s, c, roomId, peerId) ==
  IF peerId = "" THEN s
  ELSE Defer(SocketJoin(s, c, roomId),
             Task("joined", c, roomId, peerId, s.rooms[roomId]))

\* joinedRoom up to `await socket.join(normalizedRoomId)`
joinedRoomStart(s, c, roomId, peerId) ==
  IF roomId = "" THEN s
  ELSE IF roomId \notin DOMAIN s.rooms /\ ~(autoCreateOnJoin /\ isUuidLike(roomId))
  THEN Emit(s, {c}, "room-not-found", "", "")
  ELSE joinedRoomAwait(EnsureRoom(s, roomId), c, roomId, peerId)

\* joinedRoom: the socket's previous identity is taken out of its room.
DropPreviousIdentity(s, t) ==
  LET c == t.conn
      previousRoomId == s.data[c].roomId
      previousPeerId == s.data[c].peerId
  IN IF /\ previousRoomId # ""
        /\ previousPeerId # ""
        /\ (previousRoomId # t.roomId \/ previousPeerId # t.peerId)
     THEN IF previousRoomId # t.roomId
          THEN SocketLeave(
                 removePeerFromRoom(s, c, previousRoomId, previousPeerId, c),
                 c, previousRoomId)
          ELSE removePeerFromRoom(s, c, previousRoomId, previousPeerId, c)
     ELSE s

\* joinedRoom: the evicted socket, when still connected, leaves the transport
\* room and loses its identity if that still names this room.
DetachExistingSocket(s, existingSocketId, roomId) ==
  IF existingSocketId \notin s.live THEN s
  ELSE IF s.data[existingSocketId].roomId = roomId
  THEN ForgetIdentity(SocketLeave(s, existingSocketId, roomId), existingSocketId)
  ELSE SocketLeave(s, existingSocketId, roomId)

\* joinedRoom: another socket registered under the peer id is evicted.  `room`
\* is the object looked up before the await (t.room), which rooms[roomId]
\* may no longer be.
EvictExistingSocket(s, t) ==
  LET existingSocketId == Get(s.heap[t.room].peerToSocket, t.peerId)
  IN IF existingSocketId # "" /\ existingSocketId # t.conn
     THEN DetachExistingSocket(
            removePeerFromRoom(s, t.conn, t.roomId, t.peerId, existingSocketId),
            existingSocketId, t.roomId)
     ELSE s

\* joinedRoom: the peer is registered in `room` and the member list returned.
RegisterPeer(s, t) ==
  LET participants == IF t.peerId \in SeqToSet(s.heap[t.room].participants)
                      THEN s.heap[t.room].participants
                      ELSE Append(s.heap[t.room].participants, t.peerId)
  IN Emit([s EXCEPT
             !.heap[t.room] =
                [participants |-> participants,
                 peerToSocket |-> Put(@.peerToSocket, t.peerId, t.conn),
                 socketToPeer |-> Put(@.socketToPeer, t.conn, t.peerId)],
             !.data[t.conn].roomId = t.roomId,
             !.data[t.conn].peerId = t.peerId],
          {t.conn}, "get-users", t.roomId, participants)

\* joinedRoom after the await
joinedRoomResume(s, t) ==
  RegisterPeer(
    EvictExistingSocket(
      DropPreviousIdentity(pruneRoomState(s, t.roomId), t), t), t)

\* ready, once the room has been pruned
AnnounceReady(s, c) ==
  LET roomId == s.data[c].roomId
      peerId == s.data[c].peerId
  IN IF roomId \notin DOMAIN s.rooms THEN s
     ELSE IF Get(s.heap[s.rooms[roomId]].socketToPeer, c) # peerId THEN s
     ELSE EmitToRoom(s, c, roomId, "user-joined", peerId, roomId)

ready(s, c) ==
  IF s.data[c].roomId = "" \/ s.data[c].peerId = "" THEN s
  ELSE AnnounceReady(pruneRoomState(s, s.data[c].roomId), c)

\* The task t leaves the queue.
Dequeue(s, t) == [s EXCEPT !.tasks = @ \ {t}]

\* The continuation of one task.
Resume(s, t) ==
  CASE t.kind = "create" -> createRoomResume(Dequeue(s, t), t)
    [] t.kind = "joined" -> joinedRoomResume(Dequeue(s, t), t)
    [] t.kind = "prune" -> pruneRoomState(Dequeue(s, t), t.roomId)

----------------------------------------------------------------------------
(* Remote-control engine: helpers *)

\* io.sockets.sockets.keys(): the sockets in the order they connected
ConnOrder == <<"c1", "c2", "c3">>

\* Host ids in localeCompare order
HostOrder == <<"host-p1", "host-p2">>

\* "host-" + the peer id stripped to [A-Za-z0-9_-], first 20 characters
buildSuggestedHostId(peerId) ==
  CASE peerId = "p1" -> "host-p1"
    [] peerId = "p2" -> "host-p2"

isLikelyPrivateOrLocalNetworkId(id) == id \in {"loopback-local", "10.0.0.5"}

getSocketNetworkId(c) == networkId[c]

\* Faulty variant of resolveSessionForSocket: a session id that names no
\* session falls through to the socket's own sessions.
resolveSessionForSocketFallingBack(s, c, requestedSessionId) ==
  IF requestedSessionId # 0 /\ requestedSessionId \in DOMAIN s.sessions
  THEN requestedSessionId
  ELSE LET hostId == s.data[c].remoteHostId
           active == IF hostId # "" /\ hostId \in DOMAIN s.hosts
                     THEN s.hosts[hostId].activeSessionId ELSE 0
           controllerSessionId == s.data[c].controllerSessionId
       IN IF active # 0
          THEN IF active \in DOMAIN s.sessions THEN active ELSE 0
          ELSE IF controllerSessionId # 0 /\ controllerSessionId \in DOMAIN s.sessions
          THEN controllerSessionId
          ELSE 0

resolveSessionForSocket(s, c, requestedSessionId) ==
  IF requestedSessionId # 0
  THEN IF requestedSessionId \in DOMAIN s.sessions THEN requestedSessionId ELSE 0
  ELSE LET hostId == s.data[c].remoteHostId
           active == IF hostId # "" /\ hostId \in DOMAIN s.hosts
                     THEN s.hosts[hostId].activeSessionId ELSE 0
           controllerSessionId == s.data[c].controllerSessionId
       IN IF active # 0
          THEN IF active \in DOMAIN s.sessions THEN active ELSE 0
          ELSE IF controllerSessionId # 0 /\ controllerSessionId \in DOMAIN s.sessions
          THEN controllerSessionId
          ELSE 0

\* The claims resolveHostOwnershipForSocket deletes while a hosts list is
\* built: those of a listed (live) host whose claim holder is offline.
StaleListedClaims(s) ==
  {h \in DOMAIN s.hostClaims :
     /\ h \in DOMAIN s.hosts
     /\ s.hosts[h].socketId \in s.live
     /\ s.hostClaims[h].socketId \notin s.live}

DropStaleListedClaims(s) ==
  [s EXCEPT !.hostClaims =
     [h \in (DOMAIN s.hostClaims) \ StaleListedClaims(s) |-> s.hostClaims[h]]]

resolveHostOwnershipForSocket(s, hostId, targetSocketId, targetRoomId) ==
  IF hostId \notin DOMAIN s.hostClaims THEN "unclaimed"
  ELSE LET claim == s.hostClaims[hostId]
       IN IF claim.socketId \notin s.live THEN "unclaimed"
          ELSE IF claim.roomId = "" \/ targetRoomId = "" \/ claim.roomId # targetRoomId
          THEN "unclaimed"
          ELSE IF claim.socketId = targetSocketId THEN "you" ELSE "other"

\* The list getAvailableHosts returns for one viewer, sorted by host id.
getAvailableHosts(s, targetSocketId) ==
  LET targetRoomId == IF targetSocketId \in s.live
                      THEN s.data[targetSocketId].roomId ELSE ""
      listed == SelectSeq(HostOrder,
                  LAMBDA h : h \in DOMAIN s.hosts /\ s.hosts[h].socketId \in s.live)
  IN [i \in 1..Len(listed) |->
        [hostId |-> listed[i],
         busy |-> s.hosts[listed[i]].activeSessionId # 0,
         ownership |-> resolveHostOwnershipForSocket(s, listed[i], targetSocketId,
                                                     targetRoomId)]]

\* io.to(targetSocketId).emit("remote-hosts-list", ...)
EmitHostsList(s, targetSocketId) ==
  Emit(s, {targetSocketId}, "remote-hosts-list", "",
       getAvailableHosts(s, targetSocketId))

emitHostsListToSocket(s, targetSocketId) ==
  EmitHostsList(DropStaleListedClaims(s), targetSocketId)

RECURSIVE EmitHostsListFrom(_, _)
EmitHostsListFrom(s, i) ==
  IF i > Len(ConnOrder) THEN s
  ELSE EmitHostsListFrom(
         IF ConnOrder[i] \in s.live THEN emitHostsListToSocket(s, ConnOrder[i]) ELSE s,
         i + 1)

broadcastHostsList(s) == EmitHostsListFrom(s, 1)

emitSessionError(s, c, code) == Emit(s, {c}, "remote-session-error", code, "")

emitToSocket(s, socketId, ev, a, b) ==
  IF socketId = "" THEN s ELSE Emit(s, {socketId}, ev, a, b)

\* if (x?.data?.field === id) delete x.data.field, x the connected socket
\* socketId
Unstamp(s, socketId, field, id) ==
  IF socketId \in s.live /\ s.data[socketId][field] = id
  THEN [s EXCEPT !.data[socketId][field] = 0]
  ELSE s

\* if (x?.data) delete x.data.field
DeleteStamp(s, socketId, field) ==
  IF socketId \in s.live THEN [s EXCEPT !.data[socketId][field] = 0] ELSE s

\* if (options.notify...) emitToSocket(socketId, "remote-session-error", {code})
NotifyCode(s, socketId, code) ==
  IF code = "" THEN s
  ELSE emitToSocket(s, socketId, "remote-session-error", code, "")

\* Faulty variant of clearPendingRequest: the sockets keep their
\* pendingRemoteRequestId.
clearPendingRequestKeepingStamps(s, requestId, controllerCode, hostCode) ==
  IF requestId \notin DOMAIN s.pendingRequests THEN s
  ELSE LET request == s.pendingRequests[requestId]
       IN NotifyCode(
            NotifyCode([s EXCEPT !.pendingRequests = Del(@, requestId)],
                       request.controllerSocketId, controllerCode),
            request.hostSocketId, hostCode)

\* clearPendingRequest(requestId, options): controllerCode / hostCode are the
\* codes to notify with, "" for no notification.
clearPendingRequest(s, requestId, controllerCode, hostCode) ==
  IF requestId \notin DOMAIN s.pendingRequests THEN s
  ELSE LET request == s.pendingRequests[requestId]
       IN NotifyCode(
            NotifyCode(
              Unstamp(
                Unstamp([s EXCEPT !.pendingRequests = Del(@, requestId)],
                        request.controllerSocketId, "pendingRemoteRequestId",
                        requestId),
                request.hostSocketId, "pendingRemoteRequestId", requestId),
              request.controllerSocketId, controllerCode),
            request.hostSocketId, hostCode)

\* if (options.notifyRequester) emitToSocket(..., "remote-host-setup-result", ...)
NotifyStatus(s, socketId, status, requestId) ==
  IF status = "" THEN s
  ELSE emitToSocket(s, socketId, "remote-host-setup-result", status, requestId)

\* Faulty variant of clearHostSetupRequest: the record stays in
\* pendingHostSetupRequests.
clearHostSetupRequestLeavingRecord(s, requestId, status) ==
  IF requestId \notin DOMAIN s.pendingHostSetupRequests THEN s
  ELSE LET request == s.pendingHostSetupRequests[requestId]
       IN NotifyStatus(
            Unstamp(
              Unstamp(s, request.requesterSocketId, "pendingHostSetupRequestId",
                      requestId),
              request.targetSocketId, "incomingHostSetupRequestId", requestId),
            request.requesterSocketId, status, requestId)

\* clearHostSetupRequest(requestId, options): status "" is no notification.
clearHostSetupRequest(s, requestId, status) ==
  IF requestId \notin DOMAIN s.pendingHostSetupRequests THEN s
  ELSE LET request == s.pendingHostSetupRequests[requestId]
       IN NotifyStatus(
            Unstamp(
              Unstamp([s EXCEPT !.pendingHostSetupRequests = Del(@, requestId)],
                      request.requesterSocketId, "pendingHostSetupRequestId",
                      requestId),
              request.targetSocketId, "incomingHostSetupRequestId", requestId),
            request.requesterSocketId, status, requestId)

clearHostSetupAssignment(s, hostId) ==
  IF hostId = "" \/ hostId \notin DOMAIN s.hostSetupAssignments THEN s
  ELSE [s EXCEPT !.hostSetupAssignments = Del(@, hostId)]

setHostSetupAssignment(s, hostId, targetSocketId, roomId) ==
  IF hostId = "" \/ targetSocketId = "" \/ roomId = "" THEN s
  ELSE [s EXCEPT !.hostSetupAssignments =
          Put(@, hostId, [targetSocketId |-> targetSocketId, roomId |-> roomId])]

NoAssignment == [targetSocketId |-> "", roomId |-> ""]

\* resolveActiveHostSetupAssignment(hostId): the state it leaves (an
\* assignment whose target is offline or in another room is cleared) ...
resolveActiveHostSetupAssignment(s, hostId) ==
  IF hostId = "" \/ hostId \notin DOMAIN s.hostSetupAssignments THEN s
  ELSE LET assignment == s.hostSetupAssignments[hostId]
           target == assignment.targetSocketId
       IN IF target \notin s.live THEN clearHostSetupAssignment(s, hostId)
          ELSE IF s.data[target].roomId = "" \/ s.data[target].roomId # assignment.roomId
          THEN clearHostSetupAssignment(s, hostId)
          ELSE s

\* ... and the assignment it returns (NoAssignment for null).
ActiveHostSetupAssignment(s, hostId) ==
  IF hostId \in DOMAIN resolveActiveHostSetupAssignment(s, hostId).hostSetupAssignments
  THEN s.hostSetupAssignments[hostId]
  ELSE NoAssignment

clearHostSetupAssignmentsForSocket(s, socketId) ==
  [s EXCEPT !.hostSetupAssignments =
     [h \in {k \in DOMAIN @ : @[k].targetSocketId # socketId} |-> @[h]]]

\* clearClaimsForSocket: the state it leaves; ClaimsOfSocket is what it counts.
ClaimsOfSocket(s, socketId) ==
  {h \in DOMAIN s.hostClaims : s.hostClaims[h].socketId = socketId}

clearClaimsForSocket(s, socketId) ==
  [s EXCEPT !.hostClaims =
     [h \in (DOMAIN @) \ ClaimsOfSocket(s, socketId) |-> @[h]]]

\* Faulty variant of ClaimedApproverSocketId: the room the claim's holder is in
\* now is not compared with the requester's room.
ClaimedApproverSocketIdOfAbsentHolder(s, hostId, roomId) ==
  IF hostId \notin DOMAIN s.hostClaims THEN ""
  ELSE LET claim == s.hostClaims[hostId]
       IN IF claim.roomId # roomId THEN ""
          ELSE IF claim.socketId \notin s.live THEN ""
          ELSE claim.socketId

\* resolveClaimedApproverSocketId(hostId, roomId): the socket id it returns ...
ClaimedApproverSocketId(s, hostId, roomId) ==
  IF hostId \notin DOMAIN s.hostClaims THEN ""
  ELSE LET claim == s.hostClaims[hostId]
       IN IF claim.roomId # roomId THEN ""
          ELSE IF claim.socketId \notin s.live THEN ""
          ELSE IF s.data[claim.socketId].roomId # roomId THEN ""
          ELSE claim.socketId

\* ... and the state it leaves: a claim that does not resolve is deleted.
resolveClaimedApproverSocketId(s, hostId, roomId) ==
  IF hostId \in DOMAIN s.hostClaims /\ ClaimedApproverSocketId(s, hostId, roomId) = ""
  THEN [s EXCEPT !.hostClaims = Del(@, hostId)]
  ELSE s

\* tryAutoClaimHostOwner({hostId}): whether it claims ...
CanAutoClaimHostOwner(s, hostId) ==
  hostId # "" /\ ActiveHostSetupAssignment(s, hostId) # NoAssignment

\* ... what it does with the active assignment it resolved ...
AutoClaimAssigned(s, hostId) ==
  IF hostId \notin DOMAIN s.hostSetupAssignments THEN s
  ELSE LET assignment == s.hostSetupAssignments[hostId]
       IN clearHostSetupAssignment(
            emitToSocket(
              [s EXCEPT !.hostClaims =
                 Put(@, hostId, [socketId |-> assignment.targetSocketId,
                                 roomId |-> assignment.roomId])],
              assignment.targetSocketId, "remote-host-claimed", hostId, "auto"),
            hostId)

\* ... and the state it leaves.
tryAutoClaimHostOwner(s, hostId) ==
  IF hostId = "" THEN s
  ELSE AutoClaimAssigned(resolveActiveHostSetupAssignment(s, hostId), hostId)

\* Faulty variant of hasPendingRequestForHost: the scan finds nothing.
NoPendingRequestForHost(s, hostId) == FALSE

hasPendingRequestForHost(s, hostId) ==
  \E r \in DOMAIN s.pendingRequests : s.pendingRequests[r].hostId = hostId

\* endSession: host.activeSessionId = "" when the host still names the session
ReleaseHost(s, hostId, sessionId) ==
  IF hostId \in DOMAIN s.hosts /\ s.hosts[hostId].activeSessionId = sessionId
  THEN [s EXCEPT !.hosts[hostId].activeSessionId = 0]
  ELSE s

endSession(s, sessionId, endedBy) ==
  IF sessionId \notin DOMAIN s.sessions THEN s
  ELSE LET session == s.sessions[sessionId]
       IN broadcastHostsList(
            DeleteStamp(
              DeleteStamp(
                Emit(
                  Emit(
                    ReleaseHost([s EXCEPT !.sessions = Del(@, sessionId)],
                                session.hostId, sessionId),
                    {session.hostSocketId}, "remote-session-ended", endedBy,
                    sessionId),
                  {session.controllerSocketId}, "remote-session-ended", endedBy,
                  sessionId),
                session.hostSocketId, "hostSessionId"),
              session.controllerSocketId, "controllerSessionId"))

----------------------------------------------------------------------------
(* Remote-control engine: event handlers *)

\* Faulty variant of registerRemoteHost: a host id held by another connected
\* agent is taken over.
registerRemoteHostUnchecked(s, c, hostId) ==
  IF hostId = "" THEN emitSessionError(s, c, "host-register-invalid")
  ELSE broadcastHostsList(
         Emit(
           [tryAutoClaimHostOwner(
              [s EXCEPT !.hosts =
                 Put(@, hostId, [socketId |-> c, activeSessionId |-> 0,
                                 networkId |-> getSocketNetworkId(c)])],
              hostId)
            EXCEPT !.data[c].remoteHostId = hostId],
           {c}, "remote-host-registered", hostId, ""))

registerRemoteHost(s, c, hostId) ==
  IF hostId = "" THEN emitSessionError(s, c, "host-register-invalid")
  ELSE IF /\ hostId \in DOMAIN s.hosts
          /\ s.hosts[hostId].socketId # ""
          /\ s.hosts[hostId].socketId # c
          /\ s.hosts[hostId].socketId \in s.live
  THEN emitSessionError(s, c, "host-id-in-use")
  ELSE broadcastHostsList(
         Emit(
           [tryAutoClaimHostOwner(
              [s EXCEPT !.hosts =
                 Put(@, hostId, [socketId |-> c, activeSessionId |-> 0,
                                 networkId |-> getSocketNetworkId(c)])],
              hostId)
            EXCEPT !.data[c].remoteHostId = hostId],
           {c}, "remote-host-registered", hostId, ""))

\* Faulty variant of ClaimResolved: an existing claim is overwritten whoever
\* holds it.
ClaimResolvedOverwriting(s, c, hostId, activeHostSetupAssignment) ==
  LET roomId == s.data[c].roomId
      hostLive == /\ hostId \in DOMAIN s.hosts
                  /\ s.hosts[hostId].socketId # ""
                  /\ s.hosts[hostId].socketId \in s.live
      claimerNetworkId == getSocketNetworkId(c)
      hostNetworkId == getSocketNetworkId(s.hosts[hostId].socketId)
      claimed == [s EXCEPT !.hostClaims =
                    Put(@, hostId, [socketId |-> c, roomId |-> roomId])]
  IN IF /\ activeHostSetupAssignment # NoAssignment
        /\ (activeHostSetupAssignment.roomId # roomId
            \/ activeHostSetupAssignment.targetSocketId # c)
     THEN emitSessionError(s, c, "host-claim-assigned-other")
     ELSE IF ~hostLive
     THEN emitSessionError(
            IF hostId \in DOMAIN s.hosts
            THEN broadcastHostsList([s EXCEPT !.hosts = Del(@, hostId)])
            ELSE s,
            c, "host-offline")
     ELSE IF claimerNetworkId # "" /\ hostNetworkId # ""
             /\ claimerNetworkId # hostNetworkId
     THEN emitSessionError(s, c, "host-claim-owner-mismatch")
     ELSE broadcastHostsList(
            Emit(IF /\ activeHostSetupAssignment # NoAssignment
                    /\ activeHostSetupAssignment.targetSocketId = c
                 THEN clearHostSetupAssignment(claimed, hostId)
                 ELSE claimed,
                 {c}, "remote-host-claimed", hostId, roomId))

\* claimRemoteHost once the host's setup assignment has been resolved;
\* activeHostSetupAssignment is what the resolution returned.
ClaimResolved(s, c, hostId, activeHostSetupAssignment) ==
  LET roomId == s.data[c].roomId
      hostLive == /\ hostId \in DOMAIN s.hosts
                  /\ s.hosts[hostId].socketId # ""
                  /\ s.hosts[hostId].socketId \in s.live
      claimerNetworkId == getSocketNetworkId(c)
      hostNetworkId == getSocketNetworkId(s.hosts[hostId].socketId)
      existingClaim == IF hostId \in DOMAIN s.hostClaims
                       THEN s.hostClaims[hostId]
                       ELSE [socketId |-> "", roomId |-> ""]
      claimed == [s EXCEPT !.hostClaims =
                    Put(@, hostId, [socketId |-> c, roomId |-> roomId])]
  IN IF /\ activeHostSetupAssignment # NoAssignment
        /\ (activeHostSetupAssignment.roomId # roomId
            \/ activeHostSetupAssignment.targetSocketId # c)
     THEN emitSessionError(s, c, "host-claim-assigned-other")
     ELSE IF ~hostLive
     THEN emitSessionError(
            IF hostId \in DOMAIN s.hosts
            THEN broadcastHostsList([s EXCEPT !.hosts = Del(@, hostId)])
            ELSE s,
            c, "host-offline")
     ELSE IF claimerNetworkId # "" /\ hostNetworkId # ""
             /\ claimerNetworkId # hostNetworkId
     THEN emitSessionError(s, c, "host-claim-owner-mismatch")
     ELSE IF /\ existingClaim.socketId # ""
             /\ existingClaim.socketId # c
             /\ existingClaim.socketId \in s.live
             /\ s.data[existingClaim.socketId].roomId = roomId
     THEN emitSessionError(s, c, "host-claimed-by-other")
     ELSE broadcastHostsList(
            Emit(IF /\ activeHostSetupAssignment # NoAssignment
                    /\ activeHostSetupAssignment.targetSocketId = c
                 THEN clearHostSetupAssignment(claimed, hostId)
                 ELSE claimed,
                 {c}, "remote-host-claimed", hostId, roomId))

claimRemoteHost(s, c, hostId) ==
  IF hostId = "" THEN emitSessionError(s, c, "host-claim-invalid")
  ELSE IF s.data[c].roomId = "" THEN emitSessionError(s, c, "room-required")
  ELSE ClaimResolved(resolveActiveHostSetupAssignment(s, hostId), c, hostId,
                     ActiveHostSetupAssignment(s, hostId))

\* resolveRoomParticipantSockets(roomId) without the requester's own peer id
SetupCandidates(s, c) ==
  LET roomId == s.data[c].roomId
      requesterPeerId == IF s.data[c].peerId # "" THEN s.data[c].peerId ELSE c
  IN IF roomId = "" THEN {}
     ELSE {d \in s.adapter[roomId] \cap s.live :
             s.data[d].peerId # "" /\ s.data[d].peerId # requesterPeerId}

\* requestHostSetup({targetPeerId}); `selected` is the participant the search
\* of the adapter's member list returns, requestId the minted UUID.
requestHostSetup(s, c, targetPeerId, selected, requestId) ==
  LET roomId == s.data[c].roomId
      requesterPeerId == IF s.data[c].peerId # "" THEN s.data[c].peerId ELSE c
      participants == SetupCandidates(s, c)
      existingPending == s.data[c].pendingHostSetupRequestId
      suggestedHostId == buildSuggestedHostId(s.data[selected].peerId)
      request == [requesterSocketId |-> c,
                  requesterPeerId |-> requesterPeerId,
                  targetSocketId |-> selected,
                  targetPeerId |-> s.data[selected].peerId,
                  roomId |-> roomId,
                  suggestedHostId |-> suggestedHostId]
  IN IF roomId = "" THEN emitSessionError(s, c, "room-required")
     ELSE IF existingPending # 0 /\ existingPending \in DOMAIN s.pendingHostSetupRequests
     THEN emitSessionError(s, c, "host-setup-pending")
     ELSE IF participants = {} THEN emitSessionError(s, c, "participant-not-found")
     ELSE IF targetPeerId # "" /\ ~\E d \in participants : s.data[d].peerId = targetPeerId
     THEN emitSessionError(s, c, "participant-not-found")
     ELSE IF targetPeerId = "" /\ Cardinality(participants) # 1
     THEN emitSessionError(s, c, "participant-required")
     ELSE IF selected = c THEN emitSessionError(s, c, "participant-invalid")
     ELSE emitToSocket(
            emitToSocket(
              [s EXCEPT
                 !.pendingHostSetupRequests = Put(@, requestId, request),
                 !.data[c].pendingHostSetupRequestId = requestId,
                 !.data[selected].incomingHostSetupRequestId = requestId],
              c, "remote-host-setup-pending", suggestedHostId, requestId),
            selected, "remote-host-setup-requested", suggestedHostId, requestId)

\* decideHostSetup, accepted, once the assignment is set: the broadcast
\* follows an auto-claim only.
AutoClaimAndBroadcast(s, hostId) ==
  IF CanAutoClaimHostOwner(s, hostId)
  THEN broadcastHostsList(tryAutoClaimHostOwner(s, hostId))
  ELSE tryAutoClaimHostOwner(s, hostId)

decideHostSetup(s, c, requestId, accepted) ==
  IF requestId = 0 \/ requestId \notin DOMAIN s.pendingHostSetupRequests THEN s
  ELSE LET request == s.pendingHostSetupRequests[requestId]
       IN IF request.targetSocketId # c THEN s
          ELSE IF ~accepted
          THEN emitToSocket(clearHostSetupRequest(s, requestId, ""),
                            request.requesterSocketId,
                            "remote-host-setup-result", "rejected", requestId)
          ELSE emitToSocket(
                 AutoClaimAndBroadcast(
                   setHostSetupAssignment(clearHostSetupRequest(s, requestId, ""),
                                          request.suggestedHostId,
                                          request.targetSocketId, request.roomId),
                   request.suggestedHostId),
                 request.requesterSocketId,
                 "remote-host-setup-result", "accepted", requestId)

\* Faulty variant of requestSession: a request for a host nobody has claimed in
\* the room is stored, with no approver.
requestSessionUnclaimed(s, c, hostId, requestId) ==
  LET host == s.hosts[hostId]
      requesterNetworkId == getSocketNetworkId(c)
      existingControllerSession == s.data[c].controllerSessionId
      existingPendingRequest == s.data[c].pendingRemoteRequestId
      roomId == s.data[c].roomId
      resolvedApproverSocketId == ClaimedApproverSocketId(s, hostId, roomId)
      request == [hostId |-> hostId,
                  hostSocketId |-> host.socketId,
                  controllerSocketId |-> c,
                  requesterId |-> IF s.data[c].peerId # ""
                                  THEN s.data[c].peerId ELSE c,
                  roomId |-> roomId,
                  approverSocketId |-> resolvedApproverSocketId]
  IN IF hostId = "" THEN emitSessionError(s, c, "host-required")
     ELSE IF hostId \notin DOMAIN s.hosts THEN emitSessionError(s, c, "host-not-found")
     ELSE IF host.socketId = "" \/ host.socketId \notin s.live
     THEN emitSessionError(broadcastHostsList([s EXCEPT !.hosts = Del(@, hostId)]),
                           c, "host-offline")
     ELSE IF /\ ~allowSameMachineRemote
             /\ requesterNetworkId # ""
             /\ host.networkId # ""
             /\ requesterNetworkId = host.networkId
             /\ isLikelyPrivateOrLocalNetworkId(requesterNetworkId)
     THEN emitSessionError(s, c, "self-host-machine-blocked")
     ELSE IF host.activeSessionId # 0 THEN emitSessionError(s, c, "host-busy")
     ELSE IF hasPendingRequestForHost(s, hostId)
     THEN emitSessionError(s, c, "host-pending")
     ELSE IF /\ existingControllerSession # 0
             /\ existingControllerSession \in DOMAIN s.sessions
     THEN emitSessionError(s, c, "controller-busy")
     ELSE IF /\ existingPendingRequest # 0
             /\ existingPendingRequest \in DOMAIN s.pendingRequests
     THEN emitSessionError(s, c, "controller-pending")
     ELSE IF roomId = "" THEN emitSessionError(s, c, "room-required")
     ELSE IF resolvedApproverSocketId = c
     THEN emitSessionError(s, c, "self-host-request-blocked")
     ELSE emitToSocket(
            Emit([s EXCEPT !.pendingRequests = Put(@, requestId, request),
                           !.data[c].pendingRemoteRequestId = requestId],
                 {c}, "remote-session-pending", hostId, requestId),
            resolvedApproverSocketId, "remote-session-requested-ui", hostId,
            requestId)

\* requestSession({hostId}); requestId is the minted UUID.
requestSession(s, c, hostId, requestId) ==
  LET host == s.hosts[hostId]
      requesterNetworkId == getSocketNetworkId(c)
      existingControllerSession == s.data[c].controllerSessionId
      existingPendingRequest == s.data[c].pendingRemoteRequestId
      roomId == s.data[c].roomId
      resolvedApproverSocketId == ClaimedApproverSocketId(s, hostId, roomId)
      request == [hostId |-> hostId,
                  hostSocketId |-> host.socketId,
                  controllerSocketId |-> c,
                  requesterId |-> IF s.data[c].peerId # ""
                                  THEN s.data[c].peerId ELSE c,
                  roomId |-> roomId,
                  approverSocketId |-> resolvedApproverSocketId]
  IN IF hostId = "" THEN emitSessionError(s, c, "host-required")
     ELSE IF hostId \notin DOMAIN s.hosts THEN emitSessionError(s, c, "host-not-found")
     ELSE IF host.socketId = "" \/ host.socketId \notin s.live
     THEN emitSessionError(broadcastHostsList([s EXCEPT !.hosts = Del(@, hostId)]),
                           c, "host-offline")
     ELSE IF /\ ~allowSameMachineRemote
             /\ requesterNetworkId # ""
             /\ host.networkId # ""
             /\ requesterNetworkId = host.networkId
             /\ isLikelyPrivateOrLocalNetworkId(requesterNetworkId)
     THEN emitSessionError(s, c, "self-host-machine-blocked")
     ELSE IF host.activeSessionId # 0 THEN emitSessionError(s, c, "host-busy")
     ELSE IF hasPendingRequestForHost(s, hostId)
     THEN emitSessionError(s, c, "host-pending")
     ELSE IF /\ existingControllerSession # 0
             /\ existingControllerSession \in DOMAIN s.sessions
     THEN emitSessionError(s, c, "controller-busy")
     ELSE IF /\ existingPendingRequest # 0
             /\ existingPendingRequest \in DOMAIN s.pendingRequests
     THEN emitSessionError(s, c, "controller-pending")
     ELSE IF roomId = "" THEN emitSessionError(s, c, "room-required")
     ELSE IF resolvedApproverSocketId = ""
     THEN emitSessionError(resolveClaimedApproverSocketId(s, hostId, roomId),
                           c, "host-owner-unclaimed")
     ELSE IF resolvedApproverSocketId = c
     THEN emitSessionError(s, c, "self-host-request-blocked")
     ELSE emitToSocket(
            Emit([s EXCEPT !.pendingRequests = Put(@, requestId, request),
                           !.data[c].pendingRemoteRequestId = requestId],
                 {c}, "remote-session-pending", hostId, requestId),
            resolvedApproverSocketId, "remote-session-requested-ui", hostId,
            requestId)

\* Faulty variant of StartSession: the controller socket is not stamped with
\* the session id.
StartSessionUnstamped(s, request, sessionId) ==
  broadcastHostsList(
    emitToSocket(
      emitToSocket(
        [s EXCEPT
           !.sessions =
              Put(@, sessionId, [hostId |-> request.hostId,
                                 hostSocketId |-> request.hostSocketId,
                                 controllerSocketId |-> request.controllerSocketId]),
           !.hosts[request.hostId].activeSessionId = sessionId,
           !.data[request.hostSocketId].hostSessionId =
              IF request.hostSocketId \in s.live THEN sessionId ELSE @],
        request.hostSocketId, "remote-session-started", request.hostId, sessionId),
      request.controllerSocketId, "remote-session-started", request.hostId,
      sessionId))

\* decideSession from `const sessionId = UUIDv4()` on: the session is recorded,
\* stamped on host and sockets, and announced.
StartSession(s, request, sessionId) ==
  broadcastHostsList(
    emitToSocket(
      emitToSocket(
        [s EXCEPT
           !.sessions =
              Put(@, sessionId, [hostId |-> request.hostId,
                                 hostSocketId |-> request.hostSocketId,
                                 controllerSocketId |-> request.controllerSocketId]),
           !.hosts[request.hostId].activeSessionId = sessionId,
           !.data[request.controllerSocketId].controllerSessionId = sessionId,
           !.data[request.hostSocketId].hostSessionId =
              IF request.hostSocketId \in s.live THEN sessionId ELSE @],
        request.hostSocketId, "remote-session-started", request.hostId, sessionId),
      request.controllerSocketId, "remote-session-started", request.hostId,
      sessionId))

\* Faulty variant of DecideCleared: an accepted request starts its session
\* with no re-validation.
DecideClearedUnvalidated(s, request, accepted, sessionId) ==
  IF ~accepted
  THEN emitToSocket(s, request.controllerSocketId, "remote-session-error",
                    "request-rejected", "")
  ELSE IF request.hostId \notin DOMAIN s.hosts
          \/ request.controllerSocketId \notin s.live
  THEN s
  ELSE StartSession(s, request, sessionId)

\* decideSession after clearPendingRequest(requestId): `request` is the record
\* that was pending.
DecideCleared(s, request, accepted, sessionId) ==
  LET cs == request.controllerSocketId
      hs == request.hostSocketId
      existingControllerSession == s.data[cs].controllerSessionId
  IN IF ~accepted
     THEN emitToSocket(s, cs, "remote-session-error", "request-rejected", "")
     ELSE IF \/ request.hostId \notin DOMAIN s.hosts
             \/ s.hosts[request.hostId].socketId # hs
     THEN emitToSocket(s, cs, "remote-session-error", "host-offline", "")
     ELSE IF s.hosts[request.hostId].activeSessionId # 0
     THEN emitToSocket(s, cs, "remote-session-error", "host-busy", "")
     ELSE IF cs \notin s.live THEN s
     ELSE IF /\ existingControllerSession # 0
             /\ existingControllerSession \in DOMAIN s.sessions
     THEN emitToSocket(s, hs, "remote-session-error", "controller-busy", "")
     ELSE StartSession(s, request, sessionId)

\* Faulty variant of decideSession: the sender is not compared with the
\* request's approver and host agent.
decideSessionUngated(s, c, requestId, accepted, sessionId) ==
  IF requestId = 0 \/ requestId \notin DOMAIN s.pendingRequests THEN s
  ELSE DecideCleared(clearPendingRequest(s, requestId, "", ""),
                     s.pendingRequests[requestId], accepted, sessionId)

\* decideSession({requestId, accepted}); sessionId is the minted UUID.
decideSession(s, c, requestId, accepted, sessionId) ==
  IF requestId = 0 \/ requestId \notin DOMAIN s.pendingRequests THEN s
  ELSE LET request == s.pendingRequests[requestId]
           decisionByHostAgent == request.hostSocketId = c
           decisionByRoomParticipant == request.approverSocketId = c
       IN IF ~decisionByHostAgent /\ ~decisionByRoomParticipant THEN s
          ELSE DecideCleared(clearPendingRequest(s, requestId, "", ""),
                             request, accepted, sessionId)

\* Faulty variant of stopSession: the caller is not compared with the
\* session's endpoints.
stopSessionByAnyone(s, c, sessionId) ==
  LET resolvedSessionId == resolveSessionForSocket(s, c, sessionId)
      pendingRequestId == s.data[c].pendingRemoteRequestId
  IN IF resolvedSessionId = 0
     THEN IF /\ pendingRequestId # 0
             /\ pendingRequestId \in DOMAIN s.pendingRequests
             /\ s.pendingRequests[pendingRequestId].controllerSocketId = c
          THEN clearPendingRequest(s, pendingRequestId, "", "request-cancelled")
          ELSE s
     ELSE endSession(s, resolvedSessionId,
                     IF s.sessions[resolvedSessionId].hostSocketId = c
                     THEN "host" ELSE "controller")

stopSession(s, c, sessionId) ==
  LET resolvedSessionId == resolveSessionForSocket(s, c, sessionId)
      pendingRequestId == s.data[c].pendingRemoteRequestId
      session == s.sessions[resolvedSessionId]
      isHost == session.hostSocketId = c
      isController == session.controllerSocketId = c
  IN IF resolvedSessionId = 0
     THEN IF /\ pendingRequestId # 0
             /\ pendingRequestId \in DOMAIN s.pendingRequests
             /\ s.pendingRequests[pendingRequestId].controllerSocketId = c
          THEN clearPendingRequest(s, pendingRequestId, "", "request-cancelled")
          ELSE s
     ELSE IF ~isHost /\ ~isController THEN s
     ELSE endSession(s, resolvedSessionId, IF isHost THEN "host" ELSE "controller")

\* Faulty variant of receiveHostFrame: the sender is not compared with the
\* session's host socket.
receiveHostFrameFromAnyone(s, c, sessionId, imageOk) ==
  IF sessionId = 0 \/ sessionId \notin DOMAIN s.sessions THEN s
  ELSE IF ~imageOk THEN s
  ELSE Emit(s, {s.sessions[sessionId].controllerSocketId}, "remote-frame", "", sessionId)

\* receiveHostFrame: imageOk is whether image is a non-empty string of at most
\* 6,000,000 characters.
receiveHostFrame(s, c, sessionId, imageOk) ==
  IF sessionId = 0 \/ sessionId \notin DOMAIN s.sessions THEN s
  ELSE IF s.sessions[sessionId].hostSocketId # c THEN s
  ELSE IF ~imageOk THEN s
  ELSE Emit(s, {s.sessions[sessionId].controllerSocketId}, "remote-frame", "", sessionId)

\* receiveControllerInput: eventOk is whether sanitizeRemoteEvent(event)
\* returns an event.
receiveControllerInput(s, c, sessionId, eventOk) ==
  IF sessionId = 0 \/ sessionId \notin DOMAIN s.sessions THEN s
  ELSE IF s.sessions[sessionId].controllerSocketId # c THEN s
  ELSE IF ~eventOk THEN s
  ELSE Emit(s, {s.sessions[sessionId].hostSocketId}, "remote-input", "", sessionId)

\* The loops of handleDisconnect and of the leave-room listener over the
\* pending records, taken in id order (one clear does not affect the next).
RECURSIVE ClearRequestsOfHostSocket(_, _, _)
ClearRequestsOfHostSocket(s, c, i) ==
  IF i > MaxRequests THEN s
  ELSE ClearRequestsOfHostSocket(
         IF i \in DOMAIN s.pendingRequests /\ s.pendingRequests[i].hostSocketId = c
         THEN clearPendingRequest(s, i, "host-disconnected", "")
         ELSE s,
         c, i + 1)

RECURSIVE ClearRequestsOfApprover(_, _, _)
ClearRequestsOfApprover(s, c, i) ==
  IF i > MaxRequests THEN s
  ELSE ClearRequestsOfApprover(
         IF i \in DOMAIN s.pendingRequests /\ s.pendingRequests[i].approverSocketId = c
         THEN clearPendingRequest(s, i, "approver-disconnected", "")
         ELSE s,
         c, i + 1)

RECURSIVE ClearSetupRequestsOfSocket(_, _, _, _)
ClearSetupRequestsOfSocket(s, c, status, i) ==
  IF i > MaxRequests THEN s
  ELSE ClearSetupRequestsOfSocket(
         IF i \notin DOMAIN s.pendingHostSetupRequests THEN s
         ELSE IF s.pendingHostSetupRequests[i].targetSocketId = c
         THEN clearHostSetupRequest(s, i, status)
         ELSE IF s.pendingHostSetupRequests[i].requesterSocketId = c
         THEN clearHostSetupRequest(s, i, "")
         ELSE s,
         c, status, i + 1)

\* handleDisconnect: the `if (hostId)` block, hostId = socket.data.remoteHostId
ReleaseHostRegistration(s, c) ==
  LET hostId == s.data[c].remoteHostId
      active == IF hostId \in DOMAIN s.hosts THEN s.hosts[hostId].activeSessionId ELSE 0
  IN IF hostId = "" THEN s
     ELSE broadcastHostsList(
            [ClearRequestsOfHostSocket(
               IF active # 0 THEN endSession(s, active, "host-disconnected") ELSE s,
               c, 1)
             EXCEPT !.hosts = Del(@, hostId)])

\* The socket's claims and setup assignments are dropped (handleDisconnect and
\* the leave-room listener).
ReleaseRoomBindings(s, c) ==
  clearHostSetupAssignmentsForSocket(
    IF ClaimsOfSocket(s, c) # {}
    THEN broadcastHostsList(clearClaimsForSocket(s, c))
    ELSE s,
    c)

\* The request the socket has pending as a controller is cleared.
ClearOwnPendingRequest(s, c) ==
  IF /\ s.data[c].pendingRemoteRequestId # 0
     /\ s.data[c].pendingRemoteRequestId \in DOMAIN s.pendingRequests
  THEN clearPendingRequest(s, s.data[c].pendingRemoteRequestId, "",
                           "controller-disconnected")
  ELSE s

\* The host-setup request the socket has pending as a requester is cleared.
ClearOwnSetupRequest(s, c) ==
  IF /\ s.data[c].pendingHostSetupRequestId # 0
     /\ s.data[c].pendingHostSetupRequestId \in DOMAIN s.pendingHostSetupRequests
  THEN clearHostSetupRequest(s, s.data[c].pendingHostSetupRequestId, "")
  ELSE s

\* The session the socket controls is ended.
EndControllerSession(s, c) ==
  IF /\ s.data[c].controllerSessionId # 0
     /\ s.data[c].controllerSessionId \in DOMAIN s.sessions
  THEN endSession(s, s.data[c].controllerSessionId, "controller-disconnected")
  ELSE s

handleDisconnect(s, c) ==
  EndControllerSession(
    ClearSetupRequestsOfSocket(
      ClearOwnSetupRequest(
        ClearRequestsOfApprover(
          ClearOwnPendingRequest(
            ReleaseRoomBindings(ReleaseHostRegistration(s, c), c),
            c),
          c, 1),
        c),
      c, "target-disconnected", 1),
    c)

\* Faulty variant of the leave-room listener: the socket's claims and
\* assignments are kept.
handleLeaveRoomKeepingClaims(s, c) ==
  ClearSetupRequestsOfSocket(ClearOwnSetupRequest(s, c), c, "target-left-room", 1)

\* The remote engine's leave-room listener
handleLeaveRoom(s, c) ==
  ClearSetupRequestsOfSocket(
    ClearOwnSetupRequest(ReleaseRoomBindings(s, c), c),
    c, "target-left-room", 1)

\* The callback of a pending remote request's timer (requestSession)
requestTimer(s, requestId) ==
  clearPendingRequest(s, requestId, "request-timeout", "")

\* The callback of a pending host-setup request's timer (requestHostSetup)
hostSetupTimer(s, requestId) == clearHostSetupRequest(s, requestId, "timeout")

\* The callback of an assignment's timer (setHostSetupAssignment), armed for
\* the assignment of hostId to targetSocketId
assignmentTimer(s, hostId, targetSocketId) ==
  IF \/ hostId \notin DOMAIN s.hostSetupAssignments
     \/ s.hostSetupAssignments[hostId].targetSocketId # targetSocketId
  THEN s
  ELSE clearHostSetupAssignment(s, hostId)

----------------------------------------------------------------------------
(* Minted identifiers *)

\* A room id UUIDv4() can return: one nothing in the state mentions.
UnusedRoomIds(s) ==
  {r \in RoomIds :
     /\ r \notin DOMAIN s.rooms
     /\ s.adapter[r] = {}
     /\ \A c \in Conns : s.data[c].roomId # r
     /\ \A t \in s.tasks : t.roomId # r
     /\ \A h \in DOMAIN s.hostClaims : s.hostClaims[h].roomId # r
     /\ \A h \in DOMAIN s.hostSetupAssignments : s.hostSetupAssignments[h].roomId # r
     /\ \A q \in DOMAIN s.pendingRequests : s.pendingRequests[q].roomId # r
     /\ \A q \in DOMAIN s.pendingHostSetupRequests :
          s.pendingHostSetupRequests[q].roomId # r}

\* The unused room ids in the order they are drawn.
NewRoomIds(s) == SelectSeq(RoomOrder, LAMBDA r : r \in UnusedRoomIds(s))

UsedSessionIds(s) ==
  (DOMAIN s.sessions)
    \cup {s.hosts[h].activeSessionId : h \in DOMAIN s.hosts}
    \cup {s.data[c].controllerSessionId : c \in s.live}
    \cup {s.data[c].hostSessionId : c \in s.live}

UsedRequestIds(s) ==
  (DOMAIN s.pendingRequests) \cup (DOMAIN s.pendingHostSetupRequests)
    \cup {s.data[c].pendingRemoteRequestId : c \in s.live}
    \cup {s.data[c].pendingHostSetupRequestId : c \in s.live}
    \cup {s.data[c].incomingHostSetupRequestId : c \in s.live}

\* The least unused id of a pool, 0 when the pool is exhausted.
Least(pool) ==
  IF pool = {} THEN 0 ELSE CHOOSE n \in pool : \A m \in pool : n <= m

NewSessionId(s) == Least(SessionIds \ UsedSessionIds(s))

NewRequestId(s) == Least(RequestIds \ UsedRequestIds(s))

----------------------------------------------------------------------------
(* Room events, with the await of the transport as a suspension point *)

\* The state s stays within the bound on suspended handlers.  (The pruning
\* passes waiting behind a leave are not counted: one per room at most.)
Fits(s) == Cardinality({t \in s.tasks : t.kind # "prune"}) <= MaxTasks

CreateRoom(c) ==
  /\ c \in live
  /\ NewRoomIds(St) # <<>>
  /\ \E s \in {createRoomStart(St, c, Head(NewRoomIds(St)))} :
       Fits(s) /\ Commit(s)

JoinedRoom(c, roomId, peerId) ==
  /\ c \in live
  /\ \E s \in {joinedRoomStart(St, c, roomId, peerId)} :
       Fits(s) /\ Commit(s)

ResumeTask(t) ==
  /\ t \in tasks
  /\ Commit(Resume(St, t))

Ready(c) ==
  /\ c \in live
  /\ Commit(ready(St, c))

\* leave-room: roomHandler's listener, then remoteDesktopHandler's
LeaveRoom(c) ==
  /\ c \in live
  /\ Commit(handleLeaveRoom(leaveCurrentRoom(St, c), c))

\* The transport closes socket c: Socket.IO takes it out of every room and out
\* of the namespace, then runs the disconnect listeners in the order they were
\* registered.
SocketClosed(s, c) ==
  [s EXCEPT !.live = @ \ {c},
            !.adapter = [r \in DOMAIN @ |-> @[r] \ {c}]]

Disconnect(c) ==
  /\ c \in live
  /\ Commit(handleDisconnect(leaveCurrentRoom(SocketClosed(St, c), c), c))

----------------------------------------------------------------------------
(* Room events handled with no other handler in between *)

RECURSIVE Settle(_)
Settle(s) ==
  IF s.tasks = {} THEN s
  ELSE Settle(Resume(s, CHOOSE t \in s.tasks : TRUE))

CreateRoomNow(c) ==
  /\ c \in live
  /\ tasks = {}
  /\ NewRoomIds(St) # <<>>
  /\ Commit(Settle(createRoomStart(St, c, Head(NewRoomIds(St)))))

JoinedRoomNow(c, roomId, peerId) ==
  /\ c \in live
  /\ tasks = {}
  /\ Commit(Settle(joinedRoomStart(St, c, roomId, peerId)))

LeaveRoomNow(c) ==
  /\ c \in live
  /\ tasks = {}
  /\ Commit(Settle(handleLeaveRoom(leaveCurrentRoom(St, c), c)))

DisconnectNow(c) ==
  /\ c \in live
  /\ tasks = {}
  /\ Commit(Settle(handleDisconnect(leaveCurrentRoom(SocketClosed(St, c), c), c)))

----------------------------------------------------------------------------
(* Remote-control events and timers *)

RegisterRemoteHost(c, hostId) ==
  /\ c \in live
  /\ Commit(registerRemoteHost(St, c, hostId))

ClaimRemoteHost(c, hostId) ==
  /\ c \in live
  /\ Commit(claimRemoteHost(St, c, hostId))

HostsRequest(c) ==
  /\ c \in live
  /\ Commit(emitHostsListToSocket(St, c))

RequestHostSetup(c, targetPeerId) ==
  /\ c \in live
  /\ NewRequestId(St) # 0
  /\ \E selected \in Conns :
       /\ \/ /\ selected \in SetupCandidates(St, c)
             /\ targetPeerId \in {"", data[selected].peerId}
          \/ /\ selected = c
             /\ ~\E d \in SetupCandidates(St, c) :
                   targetPeerId \in {"", data[d].peerId}
       /\ Commit(requestHostSetup(St, c, targetPeerId, selected, NewRequestId(St)))

DecideHostSetup(c, requestId, accepted) ==
  /\ c \in live
  /\ Commit(decideHostSetup(St, c, requestId, accepted))

RequestSession(c, hostId) ==
  /\ c \in live
  /\ NewRequestId(St) # 0
  /\ Commit(requestSession(St, c, hostId, NewRequestId(St)))

DecideSession(c, requestId, accepted) ==
  /\ c \in live
  /\ NewSessionId(St) # 0
  /\ Commit(decideSession(St, c, requestId, accepted, NewSessionId(St)))

StopSession(c, sessionId) ==
  /\ c \in live
  /\ Commit(stopSession(St, c, sessionId))

HostFrame(c, sessionId, imageOk) ==
  /\ c \in live
  /\ Commit(receiveHostFrame(St, c, sessionId, imageOk))

ControllerInput(c, sessionId, eventOk) ==
  /\ c \in live
  /\ Commit(receiveControllerInput(St, c, sessionId, eventOk))

\* The 45 s timer of a pending remote request fires.
RequestTimeout(requestId) ==
  /\ requestId \in DOMAIN pendingRequests
  /\ Commit(requestTimer(St, requestId))

\* The 45 s timer of a pending host-setup request fires.
HostSetupTimeout(requestId) ==
  /\ requestId \in DOMAIN pendingHostSetupRequests
  /\ Commit(hostSetupTimer(St, requestId))

\* The 15 min timer of a host-setup assignment fires.
AssignmentTimeout(hostId) ==
  /\ hostId \in DOMAIN hostSetupAssignments
  /\ Commit(assignmentTimer(St, hostId,
                            hostSetupAssignments[hostId].targetSocketId))

----------------------------------------------------------------------------
(* Specifications *)

InitWith(networks) ==
  /\ live = Conns
  /\ networkId \in networks
  /\ data = [c \in Conns |-> FreshData]
  /\ adapter = [r \in RoomIds |-> {}]
  /\ rooms = EmptyMap
  /\ heap = EmptyMap
  /\ tasks = {}
  /\ hosts = EmptyMap
  /\ sessions = EmptyMap
  /\ pendingRequests = EmptyMap
  /\ pendingHostSetupRequests = EmptyMap
  /\ hostSetupAssignments = EmptyMap
  /\ hostClaims = EmptyMap

\* Every socket behind the same public address.
SameNetwork == [c \in Conns |-> "203.0.113.7"]

\* The room engine alone, every await a suspension point.  Two sockets send
\* room events and announce the same peer id (or none); the third socket
\* stays connected and silent.
RoomConns == {"c1", "c2"}
RoomPeerIds == {"p1"}

InitRoom == InitWith({SameNetwork})

NextRoom ==
  \/ \E c \in RoomConns : CreateRoom(c)
  \/ \E c \in RoomConns, r \in RoomIds \cup NonUuidRoomIds, p \in RoomPeerIds \cup {""} :
       JoinedRoom(c, r, p)
  \/ \E t \in tasks : ResumeTask(t)
  \/ \E c \in RoomConns : Ready(c)
  \/ \E c \in RoomConns : LeaveRoom(c)
  \/ \E c \in RoomConns : Disconnect(c)

SpecRoom == InitRoom /\ [][NextRoom]_vars

Init == InitWith({SameNetwork})

\* Both engines, every room event handled to completion.  c1 and c2 run a host
\* agent; c2 and c3 are browser participants of room R1 (c2 is both), each
\* announcing its own peer id.
Agents == {"c1", "c2"}
Participants == {"c2", "c3"}
PeerOf == [c \in Conns |-> IF c = "c3" THEN "p2" ELSE "p1"]

Next ==
  \/ \E c \in Participants : JoinedRoomNow(c, "R1", PeerOf[c])
  \/ \E c \in Participants : LeaveRoomNow(c)
  \/ \E c \in Conns : DisconnectNow(c)
  \/ \E c \in Agents, h \in HostIds : RegisterRemoteHost(c, h)
  \/ \E c \in Participants, h \in HostIds : ClaimRemoteHost(c, h)
  \/ \E c \in Participants, h \in HostIds : RequestSession(c, h)
  \/ \E c \in Conns, q \in RequestIds, acc \in BOOLEAN : DecideSession(c, q, acc)
  \/ \E c \in Conns, x \in SessionIds \cup {0} : StopSession(c, x)
  \/ \E q \in RequestIds : RequestTimeout(q)

Spec == Init /\ [][Next]_vars

\* The claim flows.  c1 runs the host agent; c2 and c3 are browser participants
\* that join room R1 or create a room of their own.  c2 connects from a public
\* address; c1 and c3 share an address: that one, a private one, or none in the
\* handshake.
ClaimNetworks ==
  {f \in [Conns -> NetworkIds \cup {""}] :
     f["c2"] = "203.0.113.7" /\ f["c3"] = f["c1"]}

ClaimAgents == {"c1"}

\* Claims made by hand and through host-setup requests.
InitSetup == InitWith(ClaimNetworks)

NextSetup ==
  \/ \E c \in Participants : JoinedRoomNow(c, "R1", PeerOf[c])
  \/ \E c \in Participants : CreateRoomNow(c)
  \/ \E c \in Participants : LeaveRoomNow(c)
  \/ \E c \in Conns : DisconnectNow(c)
  \/ \E c \in ClaimAgents, h \in HostIds : RegisterRemoteHost(c, h)
  \/ \E c \in Participants, h \in HostIds : ClaimRemoteHost(c, h)
  \/ \E c \in Participants, p \in PeerIds \cup {""} : RequestHostSetup(c, p)
  \/ \E c \in Participants, q \in RequestIds, acc \in BOOLEAN :
       DecideHostSetup(c, q, acc)
  \/ \E q \in RequestIds : HostSetupTimeout(q)

SpecSetup == InitSetup /\ [][NextSetup]_vars

\* Claims made by hand and the session requests they approve.
InitApproval == InitWith(ClaimNetworks)

NextApproval ==
  \/ \E c \in Participants : JoinedRoomNow(c, "R1", PeerOf[c])
  \/ \E c \in Participants : CreateRoomNow(c)
  \/ \E c \in Participants : LeaveRoomNow(c)
  \/ \E c \in Conns : DisconnectNow(c)
  \/ \E c \in ClaimAgents, h \in HostIds : RegisterRemoteHost(c, h)
  \/ \E c \in Participants, h \in HostIds : ClaimRemoteHost(c, h)
  \/ \E c \in Participants, h \in HostIds : RequestSession(c, h)
  \/ \E q \in RequestIds : RequestTimeout(q)

SpecApproval == InitApproval /\ [][NextApproval]_vars

\* The room engine with two peers: c2 and c3 join room R1 or a room of their
\* own, each under its own peer id, every await a suspension point.
InitRejoin == InitWith({SameNetwork})

NextRejoin ==
  \/ \E c \in Participants : CreateRoom(c)
  \/ \E c \in Participants : JoinedRoom(c, "R1", PeerOf[c])
  \/ \E t \in tasks : ResumeTask(t)
  \/ \E c \in Participants : Ready(c)
  \/ \E c \in Participants : LeaveRoom(c)
  \/ \E c \in Participants : Disconnect(c)

SpecRejoin == InitRejoin /\ [][NextRejoin]_vars

\* The life of a pending request.  The agent c1 registers hosts, c2 and c3
\* claim and request them in room R1; a request ends by a rejection, by the
\* requester's remote-session-stop, by a disconnect or by its timer.
InitExpiry == InitWith({SameNetwork})

NextExpiry ==
  \/ \E c \in Participants : JoinedRoomNow(c, "R1", PeerOf[c])
  \/ \E c \in Participants : LeaveRoomNow(c)
  \/ \E c \in Conns : DisconnectNow(c)
  \/ \E c \in ClaimAgents, h \in HostIds : RegisterRemoteHost(c, h)
  \/ \E c \in Participants, h \in HostIds : ClaimRemoteHost(c, h)
  \/ \E c \in Participants, h \in HostIds : RequestSession(c, h)
  \/ \E c \in Conns, q \in RequestIds : DecideSession(c, q, FALSE)
  \/ \E c \in Participants : StopSession(c, 0)
  \/ \E q \in RequestIds : RequestTimeout(q)

\* The 45 s timer set when a request is stored fires unless the request is
\* cleared first.
SpecExpiry ==
  InitExpiry /\ [][NextExpiry]_vars
    /\ \A q \in RequestIds : WF_vars(RequestTimeout(q))

\* Pending requests of both kinds and what removes them: rejections and
\* acceptances of host setups and of session requests, the requester's
\* remote-session-stop, leaves, disconnects and the 45 s timers.
InitTimers == InitWith({SameNetwork})

NextTimers ==
  \/ \E c \in Participants : JoinedRoomNow(c, "R1", PeerOf[c])
  \/ \E c \in Participants : LeaveRoomNow(c)
  \/ \E c \in Conns : DisconnectNow(c)
  \/ \E c \in ClaimAgents, h \in HostIds : RegisterRemoteHost(c, h)
  \/ \E c \in Participants, h \in HostIds : ClaimRemoteHost(c, h)
  \/ \E c \in Participants, h \in HostIds : RequestSession(c, h)
  \/ \E c \in Conns, q \in RequestIds, acc \in BOOLEAN :
       DecideSession(c, q, acc)
  \/ \E c \in Participants : StopSession(c, 0)
  \/ \E q \in RequestIds : RequestTimeout(q)
  \/ \E c \in Participants, p \in PeerIds \cup {""} : RequestHostSetup(c, p)
  \/ \E c \in Participants, q \in RequestIds, acc \in BOOLEAN :
       DecideHostSetup(c, q, acc)
  \/ \E q \in RequestIds : HostSetupTimeout(q)

SpecTimers == InitTimers /\ [][NextTimers]_vars

\* Sessions and the relay.  The agent c1 registers hosts; c2 and c3 claim,
\* request and approve them in room R1; every socket sends frames and input
\* under every session id, well-formed or not.
InitRelay == InitWith({SameNetwork})

NextRelay ==
  \/ \E c \in Participants : JoinedRoomNow(c, "R1", PeerOf[c])
  \/ \E c \in Conns : DisconnectNow(c)
  \/ \E c \in ClaimAgents, h \in HostIds : RegisterRemoteHost(c, h)
  \/ \E c \in Participants, h \in HostIds : ClaimRemoteHost(c, h)
  \/ \E c \in Participants, h \in HostIds : RequestSession(c, h)
  \/ \E c \in Conns, q \in RequestIds, acc \in BOOLEAN : DecideSession(c, q, acc)
  \/ \E c \in Conns, x \in SessionIds \cup {0} : StopSession(c, x)
  \/ \E c \in Conns, x \in SessionIds \cup {0}, ok \in BOOLEAN : HostFrame(c, x, ok)
  \/ \E c \in Conns, x \in SessionIds \cup {0}, ok \in BOOLEAN :
       ControllerInput(c, x, ok)

SpecRelay == InitRelay /\ [][NextRelay]_vars

\* Host setup between sockets that move between rooms: c2 and c3 join either
\* room, create rooms, leave and disconnect, every room event handled to its
\* end, and ask each other to set up a host.
InitSwitch == InitWith({SameNetwork})

NextSwitch ==
  \/ \E c \in Participants, r \in RoomIds : JoinedRoomNow(c, r, PeerOf[c])
  \/ \E c \in Participants : CreateRoomNow(c)
  \/ \E c \in Participants : LeaveRoomNow(c)
  \/ \E c \in Participants : DisconnectNow(c)
  \/ \E c \in Participants, p \in PeerIds \cup {""} : RequestHostSetup(c, p)
  \/ \E c \in Participants, q \in RequestIds, acc \in BOOLEAN :
       DecideHostSetup(c, q, acc)
  \/ \E q \in RequestIds : HostSetupTimeout(q)

SpecSwitch == InitSwitch /\ [][NextSwitch]_vars

----------------------------------------------------------------------------
(* Properties *)

\* The room object registered under room id r
RoomOf(r) == heap[rooms[r]]

\* The codes of the remote-session-error events state s holds for socket c
ErrorCodes(s, c) ==
  {s.out[i].a : i \in {j \in 1..Len(s.out) :
                         s.out[j].ev = "remote-session-error" /\ c \in s.out[j].to}}

\* C1: in every room, every peer of the participants list has a peerToSocket
\* entry that names a connected socket, and socketToPeer maps that socket back
\* to the peer.
C1_ParticipantsMapped ==
  \A r \in DOMAIN rooms :
    \A p \in SeqToSet(RoomOf(r).participants) :
      /\ p \in DOMAIN RoomOf(r).peerToSocket
      /\ RoomOf(r).peerToSocket[p] \in live
      /\ Get(RoomOf(r).socketToPeer, RoomOf(r).peerToSocket[p]) = p

\* C2: every session's host is registered and its activeSessionId is the
\* session's id.
C2_SessionMarksHost ==
  \A sid \in DOMAIN sessions :
    /\ sessions[sid].hostId \in DOMAIN hosts
    /\ hosts[sessions[sid].hostId].activeSessionId = sid

\* C3: a host entry with an activeSessionId names an existing session of that
\* host id whose host socket and controller socket are both connected.
C3_ActiveSessionIsLive ==
  \A h \in DOMAIN hosts :
    hosts[h].activeSessionId # 0 =>
      /\ hosts[h].activeSessionId \in DOMAIN sessions
      /\ sessions[hosts[h].activeSessionId].hostId = h
      /\ sessions[hosts[h].activeSessionId].hostSocketId \in live
      /\ sessions[hosts[h].activeSessionId].controllerSocketId \in live

\* C4: no two sessions have the same hostId.
C4_OneSessionPerHostId ==
  \A a, b \in DOMAIN sessions :
    a # b => sessions[a].hostId # sessions[b].hostId

\* C5: no two sessions have the same hostSocketId.
C5_OneSessionPerHostSocket ==
  \A a, b \in DOMAIN sessions :
    a # b => sessions[a].hostSocketId # sessions[b].hostSocketId

\* C6: no two sessions have the same controllerSocketId.
C6_OneSessionPerController ==
  \A a, b \in DOMAIN sessions :
    a # b => sessions[a].controllerSocketId # sessions[b].controllerSocketId

\* C6 at work: a socket that controls a session asks for a host that is
\* registered, connected, idle and not requested, and is told controller-busy.
C6_ControllerBusyRefused ==
  \E c \in live, h \in DOMAIN hosts :
    /\ \E sid \in DOMAIN sessions : sessions[sid].controllerSocketId = c
    /\ "controller-busy" \in ErrorCodes(requestSession(St, c, h, NewRequestId(St)), c)

\* A remote-session-request of socket c for host h would add a second pending
\* request for h or for c.
WouldBeSecond(c, h) ==
  \E q \in DOMAIN pendingRequests :
    pendingRequests[q].hostId = h \/ pendingRequests[q].controllerSocketId = c

\* Nothing but the pending request stands in the way of a request for host h:
\* h is registered by a connected socket and hosts no session.
HostOpen(h) ==
  /\ h \in DOMAIN hosts
  /\ hosts[h].socketId \in live
  /\ hosts[h].activeSessionId = 0

\* C7: no two pending remote requests have the same host id or the same
\* controller socket; a remote-session-request that would add a second one
\* leaves pendingRequests as it is and answers the sender with an error, which
\* is host-pending or controller-pending when the host is open.
C7_OnePendingRequest ==
  /\ \A a, b \in DOMAIN pendingRequests :
       a # b => /\ pendingRequests[a].hostId # pendingRequests[b].hostId
                /\ pendingRequests[a].controllerSocketId
                     # pendingRequests[b].controllerSocketId
  /\ \A c \in live, h \in HostIds :
       WouldBeSecond(c, h) =>
         /\ requestSession(St, c, h, NewRequestId(St)).pendingRequests
              = pendingRequests
         /\ ErrorCodes(requestSession(St, c, h, NewRequestId(St)), c) # {}
         /\ HostOpen(h) =>
              ErrorCodes(requestSession(St, c, h, NewRequestId(St)), c)
                \subseteq {"host-pending", "controller-pending"}

\* C7 at work: both refusals arise; a request is pending for an open host and
\* its controller asks for another open host, which nobody has requested.
C7_BothRefusalsArise ==
  \E c, d \in live, h, g \in HostIds :
    /\ HostOpen(h) /\ HostOpen(g)
    /\ \E q \in DOMAIN pendingRequests :
         pendingRequests[q].hostId = h /\ pendingRequests[q].controllerSocketId = c
    /\ "host-pending" \in ErrorCodes(requestSession(St, d, h, NewRequestId(St)), d)
    /\ "controller-pending"
         \in ErrorCodes(requestSession(St, c, g, NewRequestId(St)), c)

\* A registry names socket c.
Referenced(c) ==
  \/ \E r \in DOMAIN rooms :
       \/ c \in DOMAIN RoomOf(r).socketToPeer
       \/ \E p \in DOMAIN RoomOf(r).peerToSocket : RoomOf(r).peerToSocket[p] = c
  \/ \E h \in DOMAIN hosts : hosts[h].socketId = c
  \/ \E h \in DOMAIN hostClaims : hostClaims[h].socketId = c
  \/ \E h \in DOMAIN hostSetupAssignments : hostSetupAssignments[h].targetSocketId = c
  \/ \E q \in DOMAIN pendingRequests :
       c \in {pendingRequests[q].hostSocketId, pendingRequests[q].controllerSocketId,
              pendingRequests[q].approverSocketId}
  \/ \E q \in DOMAIN pendingHostSetupRequests :
       c \in {pendingHostSetupRequests[q].requesterSocketId,
              pendingHostSetupRequests[q].targetSocketId}
  \/ \E sid \in DOMAIN sessions :
       c \in {sessions[sid].hostSocketId, sessions[sid].controllerSocketId}

\* C8: once the disconnect handlers of a socket have run, no registry names
\* the socket.
C8_NoReferenceToGone == \A c \in Conns \ live : ~Referenced(c)

\* Socket c may decide the pending request q: it is the request's approver or
\* its host agent.
MayDecide(c, q) ==
  c \in {pendingRequests[q].approverSocketId, pendingRequests[q].hostSocketId}

\* C9: a step that adds a session is a remote-session-decision with
\* accepted = true, for a pending request, by the request's approver or host
\* agent, and the session is the request's; a decision any other socket sends
\* leaves pendingRequests, sessions and hosts as they are and emits nothing.
C9_ConsentGate ==
  [][/\ \A sid \in (DOMAIN sessions') \ (DOMAIN sessions) :
          \E q \in DOMAIN pendingRequests, c \in live :
            /\ MayDecide(c, q)
            /\ DecideSession(c, q, TRUE)
            /\ sessions'[sid].hostId = pendingRequests[q].hostId
            /\ sessions'[sid].controllerSocketId
                 = pendingRequests[q].controllerSocketId
     /\ \A c \in live, q \in DOMAIN pendingRequests, acc \in BOOLEAN :
          ~MayDecide(c, q) =>
            /\ decideSession(St, c, q, acc, NewSessionId(St)).pendingRequests
                 = pendingRequests
            /\ decideSession(St, c, q, acc, NewSessionId(St)).sessions = sessions
            /\ decideSession(St, c, q, acc, NewSessionId(St)).hosts = hosts
            /\ decideSession(St, c, q, acc, NewSessionId(St)).out = <<>>
    ]_vars

\* C9 at work: a session has started while another request is pending, and a
\* connected socket is neither that request's approver nor its host agent.
C9_SessionBesidePending ==
  /\ sessions # EmptyMap
  /\ \E q \in DOMAIN pendingRequests, c \in live : ~MayDecide(c, q)

\* The peers of room r whose mappings survive a pruning pass
LiveParticipants(r) ==
  {p \in SeqToSet(RoomOf(r).participants) :
     /\ p \in DOMAIN RoomOf(r).peerToSocket
     /\ RoomOf(r).peerToSocket[p] \in live
     /\ Get(RoomOf(r).socketToPeer, RoomOf(r).peerToSocket[p]) = p}

\* C10: a step that deletes rooms[r] starts in a state where r has no live
\* participant and no socket is joined to r in the adapter.
C10_DeletedOnlyWhenEmpty ==
  [][\A r \in DOMAIN rooms :
       r \notin DOMAIN rooms' => LiveParticipants(r) = {} /\ adapter[r] = {}]_vars

\* C10 at work: a joined-room handler waits at its await holding a room object
\* that has been deleted from the registry in the meantime.
C10_RoomDeletedUnderWaiter ==
  \E t \in tasks :
    /\ t.kind = "joined"
    /\ t.room # 0
    /\ (t.roomId \notin DOMAIN rooms \/ rooms[t.roomId] # t.room)

\* C11: once no handler is waiting at an await, no registered room has an empty
\* participants list and an empty adapter room.
C11_NoGhostRoom ==
  tasks = {} =>
    \A r \in DOMAIN rooms :
      ~(RoomOf(r).participants = <<>> /\ adapter[r] = {})

\* The creation window of room r for socket c: create-room of c has created r
\* (its handler waits at the join, or has stamped c with r and nothing else), c
\* is connected, has not left and has announced no peer id.
InCreationWindow(c, r) ==
  /\ c \in live
  /\ r \in DOMAIN rooms
  /\ \/ \E t \in tasks : t.kind = "create" /\ t.conn = c /\ t.roomId = r
     \/ data[c].roomId = r /\ data[c].peerId = ""

\* Socket c is registered under a peer id in some room object.
Announced(c) ==
  \E o \in DOMAIN heap : \E p \in DOMAIN heap[o].peerToSocket :
    heap[o].peerToSocket[p] = c

\* create-room of socket c leaves the minted room registered and c joined to
\* it before the handler waits.
CreatedAndJoined(c) ==
  /\ Head(NewRoomIds(St)) \in DOMAIN createRoomStart(St, c, Head(NewRoomIds(St))).rooms
  /\ c \in createRoomStart(St, c, Head(NewRoomIds(St))).adapter[Head(NewRoomIds(St))]

\* C12: create-room registers the room and joins its creator before it waits;
\* from then on no step deletes the room or takes the creator out of it, unless
\* the step disconnects the creator, moves its socket.data.roomId away from
\* the room (leave-room, or a joined-room that registers it elsewhere), or the
\* creator is registered under a peer id.
C12_CreationWindow ==
  /\ [](\A c \in live : NewRoomIds(St) # <<>> => CreatedAndJoined(c))
  /\ [][\A c \in Conns : \A r \in DOMAIN rooms :
         /\ c \in adapter[r]
         /\ c \in live'
         /\ ~(data[c].roomId = r /\ data'[c].roomId # r)
         /\ ~Announced(c)
         => r \in DOMAIN rooms' /\ c \in adapter'[r]]_vars

\* C12 witness: a pruning pass on room r is waiting while r is in the creation
\* window of c and another socket has left r.
C12_PruneInsideWindow ==
  \E c \in Conns : \E r \in DOMAIN rooms :
    /\ InCreationWindow(c, r)
    /\ RoomOf(r).participants = <<>>
    /\ adapter[r] = {c}
    /\ \E t \in tasks : t.kind = "prune" /\ t.roomId = r

\* C13: while a create-room or joined-room handler of a socket waits at its
\* join, a step that is not its continuation is no event of that socket: the
\* socket stays connected and socket.data keeps its value.
C13_HandlersSerialized ==
  [][\A t \in tasks :
       t.kind \in {"create", "joined"} /\ t \in tasks' /\ t.conn \in live
         => t.conn \in live' /\ data'[t.conn] = data[t.conn]]_vars

\* Host id h is held by a connected socket other than c.
HeldByOther(c, h) ==
  /\ h \in DOMAIN hosts
  /\ hosts[h].socketId \in live \ {c}

\* C14: remote-host-register {h} of a connected socket c is refused with
\* host-id-in-use, the hosts, the claims and c's remoteHostId unchanged, when
\* another connected socket holds h; otherwise it records c as the owner of h
\* with no active session.
C14_RegisterGuardsHostId ==
  \A c \in live : \A h \in HostIds :
    IF HeldByOther(c, h)
    THEN /\ "host-id-in-use" \in ErrorCodes(registerRemoteHost(St, c, h), c)
         /\ registerRemoteHost(St, c, h).hosts = hosts
         /\ registerRemoteHost(St, c, h).hostClaims = hostClaims
         /\ registerRemoteHost(St, c, h).data[c].remoteHostId = data[c].remoteHostId
    ELSE /\ ErrorCodes(registerRemoteHost(St, c, h), c) = {}
         /\ registerRemoteHost(St, c, h).hosts[h].socketId = c
         /\ registerRemoteHost(St, c, h).hosts[h].activeSessionId = 0

\* C14 witness: one host id is held by a connected agent while a claim exists,
\* and another host id is still registered to an agent that has disconnected.
C14_HeldAndStaleHostIds ==
  /\ hostClaims # EmptyMap
  /\ \E c \in live : \E h \in HostIds : HeldByOther(c, h)
  /\ \E c \in live : \E h \in DOMAIN hosts : hosts[h].socketId \notin live

\* remote-host-claim {h} of socket c gets past the room, assignment, host-live
\* and network checks.
PassesClaimChecks(c, h) ==
  /\ data[c].roomId # ""
  /\ \/ ActiveHostSetupAssignment(St, h) = NoAssignment
     \/ ActiveHostSetupAssignment(St, h) =
          [targetSocketId |-> c, roomId |-> data[c].roomId]
  /\ h \in DOMAIN hosts
  /\ hosts[h].socketId \in live
  /\ \/ networkId[c] = ""
     \/ networkId[hosts[h].socketId] = ""
     \/ networkId[c] = networkId[hosts[h].socketId]

\* The claim of h is held by a connected socket other than c.
ClaimedByOther(c, h) ==
  /\ h \in DOMAIN hostClaims
  /\ hostClaims[h].socketId \in live \ {c}

\* C15: a remote-host-claim {h} of c that passes the checks is refused with
\* host-claimed-by-other, the claims unchanged, when another connected socket
\* in c's room holds the claim of h; otherwise the claim of h becomes
\* (c, c's room).
C15_ClaimOrRefuse ==
  \A c \in live : \A h \in HostIds :
    PassesClaimChecks(c, h) =>
      IF ClaimedByOther(c, h) /\ data[hostClaims[h].socketId].roomId = data[c].roomId
      THEN /\ "host-claimed-by-other" \in ErrorCodes(claimRemoteHost(St, c, h), c)
           /\ claimRemoteHost(St, c, h).hostClaims = hostClaims
      ELSE /\ h \in DOMAIN claimRemoteHost(St, c, h).hostClaims
           /\ claimRemoteHost(St, c, h).hostClaims[h] =
                [socketId |-> c, roomId |-> data[c].roomId]

\* C15 witness: a claim that passes the checks finds the claim of h held by a
\* connected socket that is in another room.
C15_ClaimHeldFromOtherRoom ==
  \E c \in live : \E h \in HostIds :
    /\ PassesClaimChecks(c, h)
    /\ ClaimedByOther(c, h)
    /\ data[hostClaims[h].socketId].roomId \notin {"", data[c].roomId}

\* The network identities of sockets c and d are equal or one of them is empty.
NetworksAgree(c, d) ==
  networkId[c] = "" \/ networkId[d] = "" \/ networkId[c] = networkId[d]

\* C16: a step that records a claim for a host id whose host agent is connected
\* records it for a socket whose network identity agrees with the host
\* agent's.
C16_ClaimsMatchNetwork ==
  [][\A h \in DOMAIN hostClaims' :
       /\ h \notin DOMAIN hostClaims \/ hostClaims'[h] # hostClaims[h]
       /\ h \in DOMAIN hosts'
       /\ hosts'[h].socketId \in live'
       => NetworksAgree(hostClaims'[h].socketId, hosts'[h].socketId)]_vars

\* No valid claim of host h exists in the room of socket c.
NoValidClaim(c, h) == ClaimedApproverSocketId(St, h, data[c].roomId) = ""

\* The same-machine test of remote-session-request applies to c and host h.
SameMachine(c, h) ==
  /\ ~allowSameMachineRemote
  /\ networkId[c] # ""
  /\ networkId[c] = hosts[h].networkId
  /\ isLikelyPrivateOrLocalNetworkId(networkId[c])

\* Socket c controls a session or has a pending request of its own.
ControllerEngaged(c) ==
  \/ data[c].controllerSessionId \in DOMAIN sessions
  \/ data[c].pendingRemoteRequestId \in DOMAIN pendingRequests

\* remote-session-request {h} of c is answered with host-owner-unclaimed and
\* stores nothing.
RefusedUnclaimed(c, h) ==
  /\ ErrorCodes(requestSession(St, c, h, NewRequestId(St)), c) = {"host-owner-unclaimed"}
  /\ requestSession(St, c, h, NewRequestId(St)).pendingRequests = pendingRequests
  /\ requestSession(St, c, h, NewRequestId(St)).data[c].pendingRemoteRequestId =
       data[c].pendingRemoteRequestId

\* C17 as stated: a remote-session-request {h} of an in-room socket, h live,
\* idle and without pending request, no valid claim of h in the requester's
\* room, is answered with host-owner-unclaimed and stores no request.
C17_UnclaimedRefused ==
  \A c \in live : \A h \in HostIds :
    /\ data[c].roomId # ""
    /\ HostOpen(h)
    /\ ~hasPendingRequestForHost(St, h)
    /\ NoValidClaim(c, h)
    => RefusedUnclaimed(c, h)

\* C17 amended: the same, for a requester the same-machine test does not
\* apply to and that neither controls a session nor has a pending request.
C17_UnclaimedRefusedWhenFree ==
  \A c \in live : \A h \in HostIds :
    /\ data[c].roomId # ""
    /\ HostOpen(h)
    /\ ~hasPendingRequestForHost(St, h)
    /\ NoValidClaim(c, h)
    /\ ~SameMachine(c, h)
    /\ ~ControllerEngaged(c)
    => RefusedUnclaimed(c, h)

\* C17 witness: a free requester asks for an open host whose claim was recorded
\* for another room by a socket that is still connected.
C17_ClaimFromOtherRoom ==
  \E c \in live : \E h \in DOMAIN hostClaims :
    /\ data[c].roomId # ""
    /\ HostOpen(h)
    /\ ~hasPendingRequestForHost(St, h)
    /\ ~SameMachine(c, h)
    /\ ~ControllerEngaged(c)
    /\ hostClaims[h].socketId \in live
    /\ hostClaims[h].roomId # data[c].roomId

\* The state the disconnect of socket c leaves, with what it emitted.
AfterDisconnect(c) ==
  Settle(handleDisconnect(leaveCurrentRoom(SocketClosed(St, c), c), c))

\* The hosts lists in s.out addressed to socket c
HostsListsFor(s, c) ==
  SelectSeq(s.out, LAMBDA m : m.ev = "remote-hosts-list" /\ c \in m.to)

\* Socket c was told that session x ended, with the given endedBy.
ToldEnded(s, c, x, endedBy) ==
  \E i \in 1..Len(s.out) :
    /\ s.out[i].ev = "remote-session-ended"
    /\ c \in s.out[i].to
    /\ s.out[i].a = endedBy
    /\ s.out[i].b = x

\* The last hosts list sent to socket c shows host h, not busy.
ListedIdle(s, c, h) ==
  /\ HostsListsFor(s, c) # <<>>
  /\ \E i \in 1..Len(HostsListsFor(s, c)[Len(HostsListsFor(s, c))].b) :
       /\ HostsListsFor(s, c)[Len(HostsListsFor(s, c))].b[i].hostId = h
       /\ ~HostsListsFor(s, c)[Len(HostsListsFor(s, c))].b[i].busy

\* C18: when the controller socket of a session disconnects while the session's
\* host agent is another, connected socket, the session is removed, the host
\* entry's activeSessionId is cleared, the host agent is sent
\* remote-session-ended with endedBy = controller-disconnected and loses its
\* hostSessionId, and the hosts list it is sent last shows the host not busy.
C18_ControllerDisconnectEnds ==
  \A x \in DOMAIN sessions :
    /\ sessions[x].controllerSocketId \in live
    /\ sessions[x].hostSocketId \in live \ {sessions[x].controllerSocketId}
    => /\ x \notin DOMAIN AfterDisconnect(sessions[x].controllerSocketId).sessions
       /\ AfterDisconnect(sessions[x].controllerSocketId)
            .hosts[sessions[x].hostId].activeSessionId = 0
       /\ ToldEnded(AfterDisconnect(sessions[x].controllerSocketId),
                    sessions[x].hostSocketId, x, "controller-disconnected")
       /\ AfterDisconnect(sessions[x].controllerSocketId)
            .data[sessions[x].hostSocketId].hostSessionId = 0
       /\ ListedIdle(AfterDisconnect(sessions[x].controllerSocketId),
                     sessions[x].hostSocketId, sessions[x].hostId)

\* The host-setup request q can be accepted by its target, which is connected
\* and still in the request's room, and suggests a host id no agent has
\* registered.
AcceptableUnregistered(q) ==
  /\ q \in DOMAIN pendingHostSetupRequests
  /\ pendingHostSetupRequests[q].targetSocketId \in live
  /\ data[pendingHostSetupRequests[q].targetSocketId].roomId =
       pendingHostSetupRequests[q].roomId
  /\ pendingHostSetupRequests[q].suggestedHostId \notin DOMAIN hosts

\* The state the target's remote-host-setup-decision {q, accepted: true} leaves,
\* with what it emitted.
Accepted(q) ==
  decideHostSetup(St, pendingHostSetupRequests[q].targetSocketId, q, TRUE)

\* Socket c is sent remote-host-claimed {hostId: h, auto: true} in s.out.
ToldAutoClaimed(s, c, h) ==
  \E i \in 1..Len(s.out) :
    /\ s.out[i].ev = "remote-host-claimed"
    /\ c \in s.out[i].to
    /\ s.out[i].a = h
    /\ s.out[i].b = "auto"

\* The state a registration of the suggested host id by agent a leaves when it
\* follows the accepted decision on q, with what the registration emitted.
RegisteredAfterAccepted(q, a) ==
  registerRemoteHost([Accepted(q) EXCEPT !.out = <<>>], a,
                     pendingHostSetupRequests[q].suggestedHostId)

\* C19: once a host-setup request for an unregistered host id is accepted, the
\* assignment of that id to the target stands; the registration of the id by a
\* host agent then sends the target remote-host-claimed (auto), records the
\* claim (target, room) and clears the assignment.
C19_AssignmentAwaitsRegistration ==
  \A q \in DOMAIN pendingHostSetupRequests : \A a \in ClaimAgents \cap live :
    AcceptableUnregistered(q) =>
      /\ pendingHostSetupRequests[q].suggestedHostId
           \in DOMAIN Accepted(q).hostSetupAssignments
      /\ ToldAutoClaimed(RegisteredAfterAccepted(q, a),
                         pendingHostSetupRequests[q].targetSocketId,
                         pendingHostSetupRequests[q].suggestedHostId)
      /\ pendingHostSetupRequests[q].suggestedHostId
           \in DOMAIN RegisteredAfterAccepted(q, a).hostClaims
      /\ pendingHostSetupRequests[q].suggestedHostId
           \notin DOMAIN RegisteredAfterAccepted(q, a).hostSetupAssignments

\* C20: an accepted decision on a host-setup request whose suggested host id no
\* agent has registered creates the assignment (host id -> target, room) and
\* keeps it, creates no claim and sends no remote-host-claimed.
C20_NoClaimBeforeRegistration ==
  \A q \in DOMAIN pendingHostSetupRequests :
    AcceptableUnregistered(q) =>
      /\ Accepted(q).hostClaims = hostClaims
      /\ \A i \in 1..Len(Accepted(q).out) :
           Accepted(q).out[i].ev # "remote-host-claimed"
      /\ pendingHostSetupRequests[q].suggestedHostId
           \in DOMAIN Accepted(q).hostSetupAssignments
      /\ Accepted(q).hostSetupAssignments[pendingHostSetupRequests[q].suggestedHostId] =
           [targetSocketId |-> pendingHostSetupRequests[q].targetSocketId,
            roomId |-> pendingHostSetupRequests[q].roomId]

\* Socket c has joined room r as peer p: a joined-room {r, p} of c completed
\* and what it attached and registered is still in place.
HasJoined(c, r, p) ==
  /\ data[c].roomId = r /\ data[c].peerId = p
  /\ r \in DOMAIN rooms
  /\ Get(RoomOf(r).socketToPeer, c) = p
  /\ Get(RoomOf(r).peerToSocket, p) = c
  /\ p \in SeqToSet(RoomOf(r).participants)
  /\ c \in adapter[r]

\* joined-room {r, p} from socket c, handled from dispatch to its last statement
\* with no other handler in between.
JoinedAgain(c, r, p) ==
  Collect(Resume(joinedRoomStart(St, c, r, p),
                 Task("joined", c, r, p, joinedRoomStart(St, c, r, p).rooms[r])))

UserLefts(s) == {i \in 1..Len(s.out) : s.out[i].ev = "user-left"}

\* C21: when socket c has joined (r, p), a second joined-room {r, p} from c
\* leaves the room registry, c's attached roomId and peerId and the transport
\* membership as they were, and emits no user-left.
C21_JoinIdempotent ==
  \A c \in Conns, r \in RoomIds \cup NonUuidRoomIds, p \in PeerIds :
     HasJoined(c, r, p) /\ c \in live =>
       /\ JoinedAgain(c, r, p).rooms = rooms
       /\ JoinedAgain(c, r, p).heap = heap
       /\ JoinedAgain(c, r, p).data[c] = data[c]
       /\ JoinedAgain(c, r, p).adapter = adapter
       /\ UserLefts(JoinedAgain(c, r, p)) = {}

\* Socket c has a remote request pending as its controller.
HasOwnPendingRequest(c) ==
  /\ data[c].pendingRemoteRequestId \in DOMAIN pendingRequests
  /\ pendingRequests[data[c].pendingRemoteRequestId].controllerSocketId = c

\* Handler state s changed nothing the remote engine keeps and emitted nothing.
RemoteNoOp(s) ==
  /\ s.sessions = sessions
  /\ s.hosts = hosts
  /\ s.pendingRequests = pendingRequests
  /\ s.data = data
  /\ s.out = <<>>

\* Session x has ended: it is gone while a session minted after it still runs
\* (ids are minted in ascending order).
EndedSession(x) ==
  x \notin DOMAIN sessions /\ \E y \in DOMAIN sessions : y > x

\* C22 as stated: remote-session-stop naming a session that has ended is a
\* no-op for every caller in every state: sessions, hosts, pending remote
\* requests and the stamps of every socket are unchanged and nothing is emitted.
C22_StopEndedIsNoOp ==
  \A c \in live, x \in SessionIds :
     EndedSession(x) => RemoteNoOp(stopSession(St, c, x))

\* C22 amended: remote-session-stop naming a session id that sessions does not
\* hold (an ended session's among them) is such a no-op for every caller that
\* has no remote request pending as controller.
C22_StopEndedIsNoOpWithoutRequest ==
  \A c \in live, x \in SessionIds :
     x \notin DOMAIN sessions /\ ~HasOwnPendingRequest(c)
       => RemoteNoOp(stopSession(St, c, x))

\* Session 1 was started and has ended (session 2 was minted while it ran), and
\* an endpoint of the running session names it in a remote-session-stop.
C22_EndpointNamesEndedSession ==
  /\ EndedSession(1)
  /\ 2 \in DOMAIN sessions
  /\ \E c \in live :
       /\ c \in {sessions[2].hostSocketId, sessions[2].controllerSocketId}
       /\ ~HasOwnPendingRequest(c)
       /\ RemoteNoOp(stopSession(St, c, 1))

\* create-room of socket c, from dispatch to its last statement.
Created(c) ==
  Resume(createRoomStart(St, c, Head(NewRoomIds(St))),
         Task("create", c, Head(NewRoomIds(St)), "", 0))

\* The get-users events state s holds.
GetUsers(s) == {i \in 1..Len(s.out) : s.out[i].ev = "get-users"}

NoDuplicates(q) == \A i, j \in 1..Len(q) : q[i] = q[j] => i = j

\* The registered room r as the pruning pass leaves it (an empty room when r is
\* not registered).
Surviving(r) ==
  IF r \in DOMAIN rooms THEN PrunedRoom(St, RoomOf(r)) ELSE createRoomState

\* Join order: the peers listed beside peerId keep the order they had, and
\* peerId keeps its place when socket c already holds it and comes last when
\* c takes it up.
InJoinOrder(before, after, c, peerId) ==
  /\ Without(after, peerId)
       = SelectSeq(Without(before.participants, peerId),
                   LAMBDA x : x \in SeqToSet(after))
  /\ IF Get(before.peerToSocket, peerId) = c
     THEN after = SelectSeq(before.participants, LAMBDA x : x \in SeqToSet(after))
     ELSE after[Len(after)] = peerId

\* The reply of the joined-room handler that completes as state s for task t:
\* one get-users, to the caller only, carrying the participants registered for
\* the room, each once and in join order, the caller's peer id among them and
\* none of them the peer of a socket that created the room and has announced
\* no peer id.
RepliesWithMembers(s, t) ==
  /\ Cardinality(GetUsers(s)) = 1
  /\ \A i \in GetUsers(s) :
       /\ s.out[i].to = {t.conn}
       /\ s.out[i].a = t.roomId
       /\ t.roomId \in DOMAIN s.rooms
       /\ s.out[i].b = s.heap[s.rooms[t.roomId]].participants
       /\ NoDuplicates(s.out[i].b)
       /\ t.peerId \in SeqToSet(s.out[i].b)
       /\ InJoinOrder(Surviving(t.roomId), s.out[i].b, t.conn, t.peerId)
       /\ \A d \in s.live :
            s.data[d].roomId = t.roomId /\ s.data[d].peerId = ""
              => \A x \in SeqToSet(s.out[i].b) :
                   Get(s.heap[s.rooms[t.roomId]].peerToSocket, x) # d

\* C23: create-room registers no participant (the new room's list is empty and
\* no other room changes), and every joined-room that completes for a
\* connected caller replies get-users to the caller only, with the room's
\* participants in join order, without duplicates, the caller's peer id
\* included and no socket listed that has sent no joined-room.
C23_MembersReply ==
  /\ \A c \in live :
       NewRoomIds(St) # <<>> =>
         /\ Created(c).heap[Created(c).rooms[Head(NewRoomIds(St))]].participants = <<>>
         /\ \A r \in DOMAIN rooms : Created(c).heap[Created(c).rooms[r]] = RoomOf(r)
  /\ \A t \in tasks :
       t.kind = "joined" /\ t.conn \in live => RepliesWithMembers(Resume(St, t), t)

\* The timer of the pending request q fires.
TimedOut(q) == requestTimer(St, q)

\* A fresh request id once request q is gone.
IdAfter(q) == NewRequestId(TimedOut(q))

\* The same controller asks for the same host again right after the timeout.
RequestedAgain(q) ==
  requestSession([TimedOut(q) EXCEPT !.out = <<>>],
                 pendingRequests[q].controllerSocketId,
                 pendingRequests[q].hostId, IdAfter(q))

\* What the firing timer of q does: the record is deleted, the requester's
\* pendingRemoteRequestId cleared, the requester told request-timeout, and a
\* new request of the same controller for the same host is not refused as
\* host-pending or controller-pending.
TimeoutClears(q) ==
  /\ q \notin DOMAIN TimedOut(q).pendingRequests
  /\ pendingRequests[q].controllerSocketId \in live
  /\ TimedOut(q).data[pendingRequests[q].controllerSocketId].pendingRemoteRequestId = 0
  /\ ErrorCodes(TimedOut(q), pendingRequests[q].controllerSocketId)
       = {"request-timeout"}
  /\ IdAfter(q) # 0
  /\ ErrorCodes(RequestedAgain(q), pendingRequests[q].controllerSocketId)
       \cap {"host-pending", "controller-pending"} = {}

\* C24: every pending remote request is eventually removed, and its timer,
\* when it fires, deletes the record, clears the requester's
\* pendingRemoteRequestId, sends the requester request-timeout and leaves host
\* and controller free of pending requests.
C24_RequestExpires ==
  /\ [](\A q \in DOMAIN pendingRequests : TimeoutClears(q))
  /\ \A q \in RequestIds :
       (q \in DOMAIN pendingRequests) ~> (q \notin DOMAIN pendingRequests)

\* A request is pending whose approver has left the room, so that no decision
\* of a room participant can end it, and a request made right after its
\* timeout is stored.
C24_RequestLeftToTimer ==
  \E q \in DOMAIN pendingRequests :
     /\ pendingRequests[q].approverSocketId \in live
     /\ data[pendingRequests[q].approverSocketId].roomId = ""
     /\ TimeoutClears(q)

\* The states the handlers that can remove the pending remote request q leave:
\* a rejection by its approver or host agent, the requester's
\* remote-session-stop, a leave-room or the disconnect of any socket, its timer.
AfterRequestRemovers(q) ==
  {decideSession(St, c, q, FALSE, 0) : c \in live}
    \cup {stopSession(St, pendingRequests[q].controllerSocketId, 0)}
    \cup {Settle(handleLeaveRoom(leaveCurrentRoom(St, c), c)) : c \in live}
    \cup {AfterDisconnect(c) : c \in live}
    \cup {requestTimer(St, q)}

\* The same for the pending host-setup request q: a decision, a leave-room or
\* the disconnect of any socket, its timer.
AfterSetupRemovers(q) ==
  {decideHostSetup(St, c, q, acc) : c \in live, acc \in BOOLEAN}
    \cup {Settle(handleLeaveRoom(leaveCurrentRoom(St, c), c)) : c \in live}
    \cup {AfterDisconnect(c) : c \in live}
    \cup {hostSetupTimer(St, q)}

StateKept(s) == [s EXCEPT !.out = <<>>] = St

\* s forwarded exactly one event: ev, for session x, to socket d alone.
Forwarded(s, ev, x, d) == s.out = <<Msg({d}, ev, "", x)>>

\* C26: a remote-host-frame changes no state and emits nothing, unless it
\* names an existing session and comes from that session's host socket: then
\* it emits at most one event, remote-frame to the session's controller socket
\* alone, and does emit it when the image is well-formed and the controller
\* connected.  The same for remote-input, from the controller to the host.
C26_RelayAuthorized ==
  \A c \in live, x \in SessionIds \cup {0}, ok \in BOOLEAN :
     /\ StateKept(receiveHostFrame(St, c, x, ok))
     /\ StateKept(receiveControllerInput(St, c, x, ok))
     /\ IF x \in DOMAIN sessions /\ sessions[x].hostSocketId = c
        THEN IF ok /\ sessions[x].controllerSocketId \in live
             THEN Forwarded(receiveHostFrame(St, c, x, ok), "remote-frame", x,
                            sessions[x].controllerSocketId)
             ELSE receiveHostFrame(St, c, x, ok).out = <<>>
        ELSE receiveHostFrame(St, c, x, ok).out = <<>>
     /\ IF x \in DOMAIN sessions /\ sessions[x].controllerSocketId = c
        THEN IF ok /\ sessions[x].hostSocketId \in live
             THEN Forwarded(receiveControllerInput(St, c, x, ok), "remote-input", x,
                            sessions[x].hostSocketId)
             ELSE receiveControllerInput(St, c, x, ok).out = <<>>
        ELSE receiveControllerInput(St, c, x, ok).out = <<>>

\* Two sessions run, the controller of one is no endpoint of the other: its
\* input under the other session's id is dropped while the other session's
\* host has its frame forwarded.
C26_TwoSessionsAndOutsider ==
  \E x, y \in DOMAIN sessions :
     /\ x # y
     /\ sessions[x].controllerSocketId \in live
     /\ sessions[x].hostSocketId \in live
     /\ sessions[y].controllerSocketId
          \notin {sessions[x].hostSocketId, sessions[x].controllerSocketId}
     /\ Forwarded(receiveHostFrame(St, sessions[x].hostSocketId, x, TRUE),
                  "remote-frame", x, sessions[x].controllerSocketId)
     /\ receiveControllerInput(St, sessions[y].controllerSocketId, x, TRUE).out = <<>>

\* Socket c is the host or the controller socket of session x.
Endpoint(c, x) ==
  c \in {sessions[x].hostSocketId, sessions[x].controllerSocketId}

\* Handler state s holds session x as it is now.
SessionKept(s, x) == x \in DOMAIN s.sessions /\ s.sessions[x] = sessions[x]

\* The participants the search of requestHostSetup can select for socket c and
\* targetPeerId (c itself when it finds none)
SetupSelections(c, targetPeerId) ==
  {selected \in Conns :
     \/ /\ selected \in SetupCandidates(St, c)
        /\ targetPeerId \in {"", data[selected].peerId}
     \/ /\ selected = c
        /\ ~\E d \in SetupCandidates(St, c) : targetPeerId \in {"", data[d].peerId}}

\* The states the events socket c can send leave (the disconnect of c among
\* them), for every payload.
AfterEventsOf(c) ==
  UNION {{requestHostSetup(St, c, p, selected, NewRequestId(St)) :
            selected \in SetupSelections(c, p)} : p \in PeerIds \cup {""}}
    \cup {Settle(createRoomStart(St, c, r)) : r \in SeqToSet(NewRoomIds(St))}
    \cup {ready(St, c)}
    \cup
  {registerRemoteHost(St, c, h) : h \in HostIds \cup {""}}
    \cup {claimRemoteHost(St, c, h) : h \in HostIds \cup {""}}
    \cup {emitHostsListToSocket(St, c)}
    \cup {requestSession(St, c, h, NewRequestId(St)) : h \in HostIds \cup {""}}
    \cup {decideSession(St, c, q, acc, NewSessionId(St)) :
            q \in RequestIds \cup {0}, acc \in BOOLEAN}
    \cup {decideHostSetup(St, c, q, acc) : q \in RequestIds \cup {0}, acc \in BOOLEAN}
    \cup {stopSession(St, c, x) : x \in SessionIds \cup {0}}
    \cup {receiveHostFrame(St, c, x, ok) : x \in SessionIds \cup {0}, ok \in BOOLEAN}
    \cup {receiveControllerInput(St, c, x, ok) :
            x \in SessionIds \cup {0}, ok \in BOOLEAN}
    \cup {Settle(joinedRoomStart(St, c, r, p)) : r \in RoomIds, p \in PeerIds \cup {""}}
    \cup {Settle(handleLeaveRoom(leaveCurrentRoom(St, c), c))}
    \cup {AfterDisconnect(c)}

\* The states the timers that can fire leave.
AfterTimers ==
  {requestTimer(St, q) : q \in RequestIds}
    \cup {hostSetupTimer(St, q) : q \in RequestIds}
    \cup {assignmentTimer(St, h, d) : h \in HostIds, d \in Conns}

\* C27: no event of a socket that is neither host nor controller of a session,
\* whatever its payload, and no timer removes or alters that session; and a
\* step that removes or alters a session is the disconnect of one of its
\* endpoints or leaves the sessions a remote-session-stop of a connected
\* endpoint leaves.
C27_SessionsEndedByEndpoints ==
  /\ [](\A x \in DOMAIN sessions :
         /\ \A c \in live : ~Endpoint(c, x) =>
               \A s \in AfterEventsOf(c) : SessionKept(s, x)
         /\ \A s \in AfterTimers : SessionKept(s, x))
  /\ [][\A x \in DOMAIN sessions :
          ~(x \in DOMAIN sessions' /\ sessions'[x] = sessions[x]) =>
             \E c \in live :
                /\ Endpoint(c, x)
                /\ \/ c \notin live'
                   \/ \E y \in SessionIds \cup {0} :
                        sessions' = stopSession(St, c, y).sessions]_vars

\* Two sessions run and a socket that is an endpoint of one only sends
\* remote-session-stop with the id of the other, and disconnects: its own
\* session ends, the other stays.
C27_StrangerStopsAndLeaves ==
  \E x, y \in DOMAIN sessions : \E c \in live :
     /\ x # y
     /\ Endpoint(c, y) /\ ~Endpoint(c, x)
     /\ SessionKept(stopSession(St, c, x), x)
     /\ y \notin DOMAIN AfterDisconnect(c).sessions
     /\ SessionKept(AfterDisconnect(c), x)

\* The state after socket c's leave-room: the room engine's listener, then the
\* remote engine's, then the pruning pass.
AfterLeaveRoom(c) == Settle(handleLeaveRoom(leaveCurrentRoom(St, c), c))

\* Socket d was sent a remote-host-setup-result for request q with the status.
SetupResult(s, d, q, status) ==
  \E i \in 1..Len(s.out) :
     /\ s.out[i].ev = "remote-host-setup-result"
     /\ s.out[i].to = {d}
     /\ s.out[i].a = status
     /\ s.out[i].b = q

\* Some event of s.out mentions the host-setup request q.
SetupMentioned(s, q) ==
  \E i \in 1..Len(s.out) :
     /\ s.out[i].ev \in {"remote-host-setup-result", "remote-host-setup-requested",
                        "remote-host-setup-pending"}
     /\ s.out[i].b = q

\* Socket c is no member of room r: not joined to it and registered under no
\* peer id of it.
OutOfRoom(s, c, r) ==
  /\ c \notin s.adapter[r]
  /\ r \in DOMAIN s.rooms =>
       LET room == s.heap[s.rooms[r]]
       IN /\ c \notin DOMAIN room.socketToPeer
          /\ \A p \in DOMAIN room.peerToSocket : room.peerToSocket[p] # c

\* C28: after a connected socket's leave-room the socket holds no claim, no
\* host-setup assignment targets it, the host-setup request it sent is removed
\* and nobody is told, every host-setup request sent to it is removed and its
\* requester is told target-left-room, and the socket is out of the room it
\* was in and has no room and no peer id; hosts, pending remote requests and
\* sessions are what they were.
C28_LeaveRoomReleases ==
  \A c \in live :
     LET t == AfterLeaveRoom(c)
     IN /\ ClaimsOfSocket(t, c) = {}
        /\ \A h \in DOMAIN t.hostSetupAssignments :
              t.hostSetupAssignments[h].targetSocketId # c
        /\ \A q \in DOMAIN pendingHostSetupRequests :
              LET request == pendingHostSetupRequests[q]
              IN /\ request.targetSocketId = c =>
                      /\ q \notin DOMAIN t.pendingHostSetupRequests
                      /\ SetupResult(t, request.requesterSocketId, q,
                                     "target-left-room")
                 /\ request.requesterSocketId = c /\ request.targetSocketId # c =>
                      /\ q \notin DOMAIN t.pendingHostSetupRequests
                      /\ ~SetupMentioned(t, q)
                 /\ request.requesterSocketId # c /\ request.targetSocketId # c =>
                      /\ q \in DOMAIN t.pendingHostSetupRequests
                      /\ t.pendingHostSetupRequests[q] = request
        /\ t.data[c].pendingHostSetupRequestId = 0
        /\ t.data[c].roomId = "" /\ t.data[c].peerId = ""
        /\ data[c].roomId # "" => OutOfRoom(t, c, data[c].roomId)
        /\ t.hosts = hosts
        /\ t.pendingRequests = pendingRequests
        /\ t.sessions = sessions
        /\ t.live = live

\* A room member that holds a claim and has a host-setup request waiting for
\* its decision leaves, while a remote request and a session exist.
C28_BoundMemberLeaves ==
  \E c \in live :
     /\ data[c].roomId # "" /\ data[c].peerId # ""
     /\ ClaimsOfSocket(St, c) # {}
     /\ \E q \in DOMAIN pendingHostSetupRequests :
           pendingHostSetupRequests[q].targetSocketId = c
     /\ DOMAIN pendingRequests # {}
     /\ DOMAIN sessions # {}

\* The position of a host id in ascending order of host ids
HostRank(h) == CHOOSE i \in 1..Len(HostOrder) : HostOrder[i] = h

\* The hosts registered by a connected socket
LiveHosts == {h \in DOMAIN hosts : hosts[h].socketId \in live}

\* The claim on host h is stale: its holder is offline or in another room
\* than the claim's (or in none).
StaleClaim(h) ==
  /\ h \in DOMAIN hostClaims
  /\ \/ hostClaims[h].socketId \notin live
     \/ data[hostClaims[h].socketId].roomId # hostClaims[h].roomId

\* The ownership of host h that viewer v is to be shown.
OwnershipFor(h, v) ==
  IF h \notin DOMAIN hostClaims \/ StaleClaim(h) THEN "unclaimed"
  ELSE IF hostClaims[h].roomId # data[v].roomId THEN "unclaimed"
  ELSE IF hostClaims[h].socketId = v THEN "you" ELSE "other"

\* The list holds every live registered host once, in ascending order of host
\* id, with its busy flag.
ListsLiveHosts(list) ==
  /\ {list[i].hostId : i \in 1..Len(list)} = LiveHosts
  /\ Len(list) = Cardinality(LiveHosts)
  /\ \A i, j \in 1..Len(list) :
        i < j => HostRank(list[i].hostId) < HostRank(list[j].hostId)
  /\ \A i \in 1..Len(list) :
        list[i].busy = (hosts[list[i].hostId].activeSessionId # 0)

\* C29: the hosts list sent to a connected viewer v on its remote-hosts-request
\* holds every live registered host exactly once, in ascending order of host
\* id, with busy set iff the host has an active session; a host's ownership is
\* "you" iff v holds its claim under v's room, "other" iff another socket holds
\* it under v's room, "unclaimed" otherwise; a claim whose holder is offline or
\* in another room than the claim's room is shown as unclaimed and is gone
\* from the registry once the list is built.
C29_HostsList ==
  \A v \in live :
     LET after == emitHostsListToSocket(St, v)
         list == after.out[1].b
     IN /\ Len(after.out) = 1
        /\ after.out[1].ev = "remote-hosts-list" /\ after.out[1].to = {v}
        /\ ListsLiveHosts(list)
        /\ \A i \in 1..Len(list) :
              /\ list[i].ownership = OwnershipFor(list[i].hostId, v)
              /\ StaleClaim(list[i].hostId) =>
                    list[i].hostId \notin DOMAIN after.hostClaims

\* C29 for the claims the code treats as stale while it builds a list: those
\* whose holder is offline.
C29_HostsListHolderOnline ==
  \A v \in live :
     LET after == emitHostsListToSocket(St, v)
         list == after.out[1].b
     IN /\ Len(after.out) = 1
        /\ ListsLiveHosts(list)
        /\ \A i \in 1..Len(list) :
              LET h == list[i].hostId
                  offline == h \in DOMAIN hostClaims
                               /\ hostClaims[h].socketId \notin live
              IN /\ list[i].ownership =
                      IF h \notin DOMAIN hostClaims \/ offline THEN "unclaimed"
                      ELSE IF hostClaims[h].roomId # data[v].roomId THEN "unclaimed"
                      ELSE IF hostClaims[h].socketId = v THEN "you" ELSE "other"
                 /\ offline => h \notin DOMAIN after.hostClaims

\* The state socket c's remote-session-request {hostId: h} leaves
Requested(c, h) == requestSession(St, c, h, NewRequestId(St))

\* The requests Requested(c, h) has stored
Stored(c, h) ==
  (DOMAIN Requested(c, h).pendingRequests) \ DOMAIN pendingRequests

\* The codes of the refusals requestSession decides on before it looks for
\* the approver
EarlierRefusals ==
  {"host-required", "host-not-found", "host-offline", "self-host-machine-blocked",
   "host-busy", "host-pending", "controller-busy", "controller-pending",
   "room-required"}

\* Socket c was refused, with one remote-session-error of the code.
Refused(s, c, code) ==
  \E i \in 1..Len(s.out) :
     /\ s.out[i].ev = "remote-session-error"
     /\ s.out[i].to = {c}
     /\ s.out[i].a = code

\* C30: a pending remote request, when requestSession stores it, names as
\* approver the holder of the claim on its host; the holder is connected and in
\* the request's room, which is the requester's room and the claim's, and is
\* not the requester.  A request for a host the requester itself has claimed
\* in its room stores nothing and, unless refused for an earlier reason, is
\* refused as self-host-request-blocked.
C30_ApproverIsClaimHolder ==
  \A c \in live, h \in HostIds :
     NewRequestId(St) # 0 =>
       LET t == Requested(c, h)
       IN /\ \A q \in Stored(c, h) :
                LET request == t.pendingRequests[q]
                    approver == request.approverSocketId
                IN /\ request.hostId = h /\ request.controllerSocketId = c
                   /\ h \in DOMAIN hostClaims
                   /\ h \in DOMAIN t.hostClaims
                   /\ t.hostClaims[h] = hostClaims[h]
                   /\ approver = hostClaims[h].socketId
                   /\ approver \in t.live
                   /\ request.roomId # ""
                   /\ request.roomId = t.data[c].roomId
                   /\ request.roomId = hostClaims[h].roomId
                   /\ t.data[approver].roomId = request.roomId
                   /\ approver # c
          /\ \A q \in DOMAIN pendingRequests :
                q \in DOMAIN t.pendingRequests
                  /\ t.pendingRequests[q] = pendingRequests[q]
          /\ (h \in DOMAIN hostClaims /\ hostClaims[h].socketId = c) =>
                /\ Stored(c, h) = {}
                /\ \/ \E code \in EarlierRefusals : Refused(t, c, code)
                   \/ /\ hostClaims[h].roomId = data[c].roomId
                      /\ Refused(t, c, "self-host-request-blocked")
                   \/ /\ hostClaims[h].roomId # data[c].roomId
                      /\ Refused(t, c, "host-owner-unclaimed")

\* One socket's request is stored for the claim holder to approve while
\* the holder's own request for the same host is refused as
\* self-host-request-blocked.
C30_StoredForHolderRefusedForSelf ==
  /\ NewRequestId(St) # 0
  /\ \E c, d \in live, h \in HostIds :
        /\ c # d
        /\ Stored(c, h) # {}
        /\ hostClaims[h].socketId = d
        /\ Refused(Requested(d, h), d, "self-host-request-blocked")

\* Socket c may decide the request q pending in s.
MayDecideIn(s, c, q) ==
  /\ q \in DOMAIN s.pendingRequests
  /\ c \in {s.pendingRequests[q].hostSocketId, s.pendingRequests[q].approverSocketId}

\* The host of request q is still registered by the request's host socket.
HostStillThere(s, q) ==
  /\ s.pendingRequests[q].hostId \in DOMAIN s.hosts
  /\ s.hosts[s.pendingRequests[q].hostId].socketId = s.pendingRequests[q].hostSocketId

HostIdle(s, q) == s.hosts[s.pendingRequests[q].hostId].activeSessionId = 0

ControllerPresent(s, q) == s.pendingRequests[q].controllerSocketId \in s.live

ControllerFree(s, q) ==
  LET x == s.data[s.pendingRequests[q].controllerSocketId].controllerSessionId
  IN x = 0 \/ x \notin DOMAIN s.sessions

\* The session stamps of hosts and sockets in t are those of s.
StampsKept(s, t) ==
  /\ t.sessions = s.sessions
  /\ t.hosts = s.hosts
  /\ \A d \in Conns :
        /\ t.data[d].controllerSessionId = s.data[d].controllerSessionId
        /\ t.data[d].hostSessionId = s.data[d].hostSessionId

\* The events of t are exactly one remote-session-error with the code, sent to
\* socket d if it is connected, and nothing if it is not.
OnlyError(t, d, code) ==
  IF d \in t.live
  THEN t.out = <<Msg({d}, "remote-session-error", code, "")>>
  ELSE t.out = <<>>

\* What an accepting decision of socket c on request q does in state s.
AcceptRevalidates(s, c, q) ==
  LET t == decideSession(s, c, q, TRUE, NewSessionId(s))
      request == s.pendingRequests[q]
  IN /\ q \notin DOMAIN t.pendingRequests
     /\ request.controllerSocketId \in s.live =>
           t.data[request.controllerSocketId].pendingRemoteRequestId # q
     /\ IF ~HostStillThere(s, q)
        THEN StampsKept(s, t)
               /\ OnlyError(t, request.controllerSocketId, "host-offline")
        ELSE IF ~HostIdle(s, q)
        THEN StampsKept(s, t)
               /\ OnlyError(t, request.controllerSocketId, "host-busy")
        ELSE IF ~ControllerPresent(s, q)
        THEN StampsKept(s, t) /\ t.out = <<>>
        ELSE IF ~ControllerFree(s, q)
        THEN StampsKept(s, t)
               /\ OnlyError(t, request.hostSocketId, "controller-busy")
        ELSE /\ DOMAIN t.sessions = DOMAIN s.sessions \cup {NewSessionId(s)}
             /\ t.sessions[NewSessionId(s)] =
                   [hostId |-> request.hostId,
                    hostSocketId |-> request.hostSocketId,
                    controllerSocketId |-> request.controllerSocketId]

\* The current state with one of the conditions decideSession tests again
\* taken away from request q: the host entry gone or held by another socket,
\* the host in a session, the requester gone, the requester in a session.
Invalidated(q) ==
  LET request == pendingRequests[q]
      h == request.hostId
      cs == request.controllerSocketId
  IN {[St EXCEPT !.hosts = Del(@, h)]}
     \cup {[St EXCEPT !.hosts[h].socketId = d] :
             d \in IF h \in DOMAIN hosts THEN Conns \ {request.hostSocketId} ELSE {}}
     \cup {[St EXCEPT !.hosts[h].activeSessionId = x] :
             x \in IF h \in DOMAIN hosts THEN SessionIds ELSE {}}
     \cup {[St EXCEPT !.live = @ \ {cs}]}
     \cup {[St EXCEPT !.data[cs].controllerSessionId = x] : x \in DOMAIN sessions}

\* C31: an accepting decision by the request's approver or host agent removes
\* the pending record; it creates a session only if the host entry still
\* belongs to the request's host socket, that socket is connected, the host is
\* idle, and the requester is connected and controls no session.  Otherwise no
\* session is created and no session stamp of a host or socket changes:
\* host-offline or host-busy goes to the requester, controller-busy to the
\* host socket, and nothing is sent when the requester is gone.
C31_AcceptRevalidates ==
  \A c \in live, q \in DOMAIN pendingRequests :
     (MayDecideIn(St, c, q) /\ NewSessionId(St) # 0) =>
        /\ AcceptRevalidates(St, c, q)
        /\ \A s \in Invalidated(q) : c \in s.live => AcceptRevalidates(s, c, q)
        /\ HostStillThere(St, q) /\ HostIdle(St, q)
        /\ pendingRequests[q].hostSocketId \in live
        /\ ControllerPresent(St, q) /\ ControllerFree(St, q)

\* A request that its approver may accept while another session exists.
C31_DecidableBesideSession ==
  /\ NewSessionId(St) # 0
  /\ DOMAIN sessions # {}
  /\ \E q \in DOMAIN pendingRequests :
        /\ pendingRequests[q].approverSocketId \in live
        /\ DOMAIN decideSession(St, pendingRequests[q].approverSocketId, q, TRUE,
                                 NewSessionId(St)).sessions # DOMAIN sessions

\* Room r maps peer id p to the connected socket d.
MapsPeerTo(r, p, d) ==
  /\ r \in DOMAIN rooms
  /\ d \in live
  /\ Get(RoomOf(r).peerToSocket, p) = d

\* What joined-room {r, p} from socket c leaves of the socket d that room r
\* mapped p to: p maps to c alone and is listed once, d is out of the room's
\* maps and of the transport room, has no roomId and no peerId, and the
\* sockets that were joined to the room, c aside, were sent user-left {p}.
Evicted(s, c, r, p, d) ==
  /\ r \in DOMAIN s.rooms
  /\ LET room == s.heap[s.rooms[r]]
     IN /\ Get(room.peerToSocket, p) = c
        /\ Get(room.socketToPeer, c) = p
        /\ d \notin DOMAIN room.socketToPeer
        /\ Cardinality({i \in 1..Len(room.participants) : room.participants[i] = p}) = 1
  /\ d \notin s.adapter[r]
  /\ s.data[d].roomId = "" /\ s.data[d].peerId = ""
  /\ \A e \in adapter[r] \ {c} :
        \E i \in UserLefts(s) : e \in s.out[i].to /\ s.out[i].a = p /\ s.out[i].b = r

\* C32: when joined-room {r, p} from socket c is handled while room r maps p
\* to another connected socket d, then afterwards p maps to c alone and is
\* listed once in participants, d has no entry in socketToPeer, has left the
\* transport room r, has neither roomId nor peerId, and user-left {p} was sent
\* to the room.
C32_SingleConnectionPerPeer ==
  \A c \in live, d \in live, r \in RoomIds \cup NonUuidRoomIds, p \in PeerIds :
     (c # d /\ MapsPeerTo(r, p, d)) => Evicted(JoinedAgain(c, r, p), c, r, p, d)

\* The claim on host h is not to be honoured: it exists, and its holder is
\* offline or attached to another room than the claim's (or to none).
Dishonoured(h) == StaleClaim(h)

\* No remote-session-request for host h resolves the claim's holder as approver.
NoApproverFor(h) ==
  \A c \in live :
     data[c].roomId # "" => ClaimedApproverSocketId(St, h, data[c].roomId) = ""

\* No hosts list shows host h as claimed.
ListedUnclaimed(h) ==
  \A v \in live :
     LET list == getAvailableHosts(St, v)
     IN \A i \in 1..Len(list) :
          list[i].hostId = h => list[i].ownership = "unclaimed"

\* No socket's remote-host-claim for host h is refused as host-claimed-by-other.
BlocksNoClaim(h) ==
  \A c \in live : "host-claimed-by-other" \notin ErrorCodes(claimRemoteHost(St, c, h), c)

\* C33: a claim whose holder is offline or attached to another room than the
\* claim's room has no effect: its holder is resolved as approver of no
\* remote-session-request, no hosts list shows the host as "you" or "other",
\* and no remote-host-claim is refused as host-claimed-by-other because of it.
C33_ClaimHonouredInRoomOnly ==
  \A h \in HostIds :
     Dishonoured(h) => NoApproverFor(h) /\ ListedUnclaimed(h) /\ BlocksNoClaim(h)

\* The host-setup requests socket c's remote-host-setup-request {targetPeerId}
\* stores when the search selects `selected`
SetupStored(c, targetPeerId, selected) ==
  LET t == requestHostSetup(St, c, targetPeerId, selected, NewRequestId(St))
  IN {t.pendingHostSetupRequests[q] :
        q \in (DOMAIN t.pendingHostSetupRequests) \ DOMAIN pendingHostSetupRequests}

\* Socket d is registered in room r under peer id p.
RegisteredIn(r, p, d) ==
  /\ r \in DOMAIN rooms
  /\ Get(RoomOf(r).peerToSocket, p) = d
  /\ p \in SeqToSet(RoomOf(r).participants)

\* C34: no two pending host-setup requests have the same requester, and a
\* host-setup request is stored only for a target that is not the requester
\* and that the registry of the requester's room maps the target's peer id to.
C34_SetupTargetsRoomParticipant ==
  /\ \A q1, q2 \in DOMAIN pendingHostSetupRequests :
        pendingHostSetupRequests[q1].requesterSocketId
          = pendingHostSetupRequests[q2].requesterSocketId => q1 = q2
  /\ NewRequestId(St) # 0 =>
       \A c \in live, p \in PeerIds \cup {""} :
          \A selected \in SetupSelections(c, p) :
             \A request \in SetupStored(c, p, selected) :
                /\ request.requesterSocketId = c
                /\ request.targetSocketId # c
                /\ request.roomId = data[c].roomId
                /\ RegisteredIn(request.roomId, request.targetPeerId,
                                request.targetSocketId)

\* The claim on host h is held by the connected socket d, attached to the
\* claim's room.
HeldInRoom(h, d) ==
  /\ h \in DOMAIN hostClaims
  /\ hostClaims[h].socketId = d
  /\ d \in live
  /\ data[d].roomId = hostClaims[h].roomId

\* State s holds the claim on host h as the current state does.
ClaimKept(s, h) == h \in DOMAIN s.hostClaims /\ s.hostClaims[h] = hostClaims[h]

\* C35: while the claim on a host is held by a connected socket attached to
\* the claim's room, no event of another socket, whatever its payload, and no
\* timer replaces or removes that claim.
C35_ClaimKeptFromOthers ==
  \A h \in HostIds, d \in live :
     HeldInRoom(h, d) =>
       /\ \A c \in live \ {d} : \A s \in AfterEventsOf(c) : ClaimKept(s, h)
       /\ \A s \in AfterTimers : ClaimKept(s, h)

\* The transport rooms socket c is joined to
JoinedRooms(c) == {r \in DOMAIN adapter : c \in adapter[r]}

\* The user-joined and user-left events of s reach only sockets attached to
\* the room they are about.
FanOutStaysInRoom(s) ==
  \A i \in 1..Len(s.out) :
     s.out[i].ev \in {"user-joined", "user-left"} =>
        \A e \in s.out[i].to : data[e].roomId = s.out[i].b

\* C36: once the room events have been handled to their end, a connected
\* socket is joined to at most one transport room, and that room is its
\* attached roomId; the user-joined its ready fans out and the user-left its
\* leave-room fans out reach only sockets attached to that room.
C36_OneTransportRoom ==
  tasks = {} =>
    \A c \in live :
       /\ Cardinality(JoinedRooms(c)) <= 1
       /\ \A r \in JoinedRooms(c) : data[c].roomId = r
       /\ FanOutStaysInRoom(ready(St, c))
       /\ FanOutStaysInRoom(leaveCurrentRoom(St, c))

\* In state s the registry holds socket c as peer p of room r.
RegisteredAs(s, c, r, p) ==
  /\ r \in DOMAIN s.rooms
  /\ p \in SeqToSet(s.heap[s.rooms[r]].participants)
  /\ Get(s.heap[s.rooms[r]].peerToSocket, p) = c
  /\ Get(s.heap[s.rooms[r]].socketToPeer, c) = p

\* The state the continuation of the suspended handler t leaves
Resumed(t) == Collect(Resume(St, t))

\* C37: a connected socket that carries a roomId and a peerId is registered
\* under that peer id in the room the registry holds under that roomId; and
\* when a joined-room handler ends by attaching (r, p) to its socket, the
\* registry holds room r with the socket registered as p.
C37_AttachedMeansRegistered ==
  /\ \A c \in live :
        (data[c].roomId # "" /\ data[c].peerId # "") =>
           RegisteredAs(St, c, data[c].roomId, data[c].peerId)
  /\ \A t \in tasks :
        (t.kind = "joined" /\ t.conn \in live) =>
           RegisteredAs(Resumed(t), t.conn, t.roomId, t.peerId)

\* C38: no session and no pending remote request has the same socket as host
\* and as controller.
C38_NoSelfSession ==
  /\ \A x \in DOMAIN sessions :
        sessions[x].hostSocketId # sessions[x].controllerSocketId
  /\ \A q \in DOMAIN pendingRequests :
        pendingRequests[q].hostSocketId # pendingRequests[q].controllerSocketId

\* The accepting decision of request q's approver starts a session.
ApproverStarts(q) ==
  /\ q \in DOMAIN pendingRequests
  /\ pendingRequests[q].approverSocketId \in live
  /\ NewSessionId(St) # 0
  /\ NewSessionId(St) \in
        DOMAIN decideSession(St, pendingRequests[q].approverSocketId, q, TRUE,
                             NewSessionId(St)).sessions

\* C39: when the accepting decision of a pending request's approver starts a
\* session, the approver and the requester are both attached to the request's
\* room and the approver holds the claim on the request's host.
C39_SessionStartsInRoom ==
  \A q \in RequestIds :
     ApproverStarts(q) =>
       LET request == pendingRequests[q]
       IN /\ data[request.approverSocketId].roomId = request.roomId
          /\ data[request.controllerSocketId].roomId = request.roomId
          /\ request.hostId \in DOMAIN hostClaims
          /\ hostClaims[request.hostId].socketId = request.approverSocketId

\* The host ids whose registry entry names connection c as its agent.
HostEntriesOf(c) == {h \in DOMAIN hosts : hosts[h].socketId = c}

\* C40: each connection owns at most one host registry entry, and the entry of
\* a live connection is the one its remoteHostId names: a second
\* remote-host-register of the same connection leaves no first entry behind.
C40_OneHostEntryPerConnection ==
  \A c \in Conns :
     /\ Cardinality(HostEntriesOf(c)) <= 1
     /\ c \in live => \A h \in HostEntriesOf(c) : data[c].remoteHostId = h

====
